---- MODULE Spec2Model ----
(***************************************************************************)
(* Model of the market-data synchronisation core of JJBoard                *)
(* (services/binanceService.ts, kept under src/unnamed/part_001):          *)
(* the BinanceService class with its reconnecting WebSocket, the snapshot  *)
(* loader, the 1h/4h backfill fetcher and the subscriber notification.     *)
(*                                                                         *)
(* JavaScript values: a number is <<"num", v>> with v in tenths (0.4 is 4, *)
(* 2.5 is 25, 50010 is 500100), NaN is <<"NaN", 0>>, undefined is          *)
(* <<"undefined", 0>>. A text is the sequence of its characters.           *)
(***************************************************************************)
EXTENDS Integers, Sequences, FiniteSets, Bags, TLC

\* ------------------------------------------------------------------ bounds
\* WebSocket objects alive at one time (this.ws and the sockets it no longer
\* refers to).
MaxConns == 2
\* Cap of the reconnect-attempt counter (the code's counter is unbounded).
MaxAttempt == 7
\* Snapshot loads in flight at one time.
MaxLoads == 1
\* Registrations in the data subscriber list.
MaxSubs == 2
\* fetchAlphaData calls in flight at one time.
MaxPolls == 2

\* ------------------------------------------------------- program constants
\* BASE_WS_URLS: the four streaming endpoints; the path and the query
\* (STREAMS) are the same for all of them.
STREAMS == "?streams=!ticker@arr/!ticker_1h@arr/!ticker_4h@arr"
BASE_WS_URLS ==
    << [scheme |-> "wss", host |-> "data-stream.binance.vision", port |-> "", path |-> "/stream", query |-> STREAMS],
       [scheme |-> "wss", host |-> "stream.binance.com", port |-> "443", path |-> "/stream", query |-> STREAMS],
       [scheme |-> "wss", host |-> "stream.binance.com", port |-> "9443", path |-> "/stream", query |-> STREAMS],
       [scheme |-> "wss", host |-> "data-stream.binance.com", port |-> "", path |-> "/stream", query |-> STREAMS] >>
\* private maxReconnectDelay = 10000
maxReconnectDelay == 10000
\* apiDomains of fetchInitialSnapshot
apiDomains == << "https://data-api.binance.vision", "https://api.binance.com", "https://api-gcp.binance.com" >>

Symbols == {"BTCUSDT", "ETHUSDT"}
Callbacks == {"cbA", "cbB"}

RECURSIVE Pow(_, _)
Pow(b, e) == IF e = 0 THEN 1 ELSE b * Pow(b, e - 1)

\* ------------------------------------------------------ JavaScript values
Num(v) == << "num", v >>
NaN == << "NaN", 0 >>
Undefined == << "undefined", 0 >>

DigitChars == {"0", "1", "2", "3", "4", "5", "6", "7", "8", "9"}
DigitVal(ch) ==
    CASE ch = "0" -> 0 [] ch = "1" -> 1 [] ch = "2" -> 2 [] ch = "3" -> 3
      [] ch = "4" -> 4 [] ch = "5" -> 5 [] ch = "6" -> 6 [] ch = "7" -> 7
      [] ch = "8" -> 8 [] ch = "9" -> 9

\* Number of consecutive digits of text t from position i on.
RECURSIVE DigitsFrom(_, _)
DigitsFrom(t, i) ==
    IF i <= Len(t) /\ t[i] \in DigitChars THEN 1 + DigitsFrom(t, i + 1) ELSE 0

\* Value of the n digits of t from position i on.
RECURSIVE DigitsValue(_, _, _)
DigitsValue(t, i, n) ==
    IF n = 0 THEN 0 ELSE DigitsValue(t, i, n - 1) * 10 + DigitVal(t[i + n - 1])

RECURSIVE SkipSpaces(_, _)
SkipSpaces(t, i) == IF i <= Len(t) /\ t[i] = " " THEN SkipSpaces(t, i + 1) ELSE i

\* parseFloat(t): leading blanks, an optional sign, the longest prefix
\* "digits[.digits]"; NaN when that prefix has no digit. The result is kept
\* to one decimal place.
parseFloat(t) ==
    LET p0 == SkipSpaces(t, 1)
        signed == p0 <= Len(t) /\ t[p0] \in {"-", "+"}
        sgn == IF signed /\ t[p0] = "-" THEN -1 ELSE 1
        p == IF signed THEN p0 + 1 ELSE p0
        n == DigitsFrom(t, p)
        dot == p + n <= Len(t) /\ t[p + n] = "."
        m == IF dot THEN DigitsFrom(t, p + n + 1) ELSE 0
    IN  IF n + m = 0 THEN NaN
        ELSE Num(sgn * (DigitsValue(t, p, n) * 10
                        + (IF m > 0 THEN DigitVal(t[p + n + 1]) ELSE 0)))

\* Number(t) of a text: the whole text has to be a numeral; the empty text
\* gives 0.
JsNumber(t) ==
    LET signed == t # << >> /\ t[1] \in {"-", "+"}
        p == IF signed THEN 2 ELSE 1
        n == DigitsFrom(t, p)
        dot == p + n <= Len(t) /\ t[p + n] = "."
        m == IF dot THEN DigitsFrom(t, p + n + 1) ELSE 0
        end == p + n + (IF dot THEN 1 + m ELSE 0)
    IN  IF t = << >> THEN Num(0)
        ELSE IF end = Len(t) + 1 THEN parseFloat(t) ELSE NaN

\* String.prototype.includes
Includes(t, sub) ==
    \E i \in 1 .. (Len(t) - Len(sub) + 1) : SubSeq(t, i, i + Len(sub) - 1) = sub

\* The content types of the model.
ApplicationJson == << "a", "p", "p", "l", "i", "c", "a", "t", "i", "o", "n", "/", "j", "s", "o", "n" >>
ApplicationJsonUtf8 == ApplicationJson \o << ";", " ", "c", "h", "a", "r", "s", "e", "t", "=", "u", "t", "f", "-", "8" >>
TextHtml == << "t", "e", "x", "t", "/", "h", "t", "m", "l" >>

\* --------------------------------------------------------------- variables
VARIABLES
    ws,                 \* this.ws: the socket it refers to, or NoSocket (null)
    strays,             \* bag of the sockets that are alive and that this.ws does not refer to
    reconnectAttempt,   \* this.reconnectAttempt
    reconnectTimeoutId, \* this.reconnectTimeoutId: "null", "live" (its timer is pending) or "stale" (its timer fired)
    timers,             \* number of pending setTimeout timers
    timerDelay,         \* delay of the pending timer, as <<numerator, denominator>> ms
    endpointIndex,      \* this.endpointIndex, 0-based
    lastFailed,         \* history: endpoint index of the attempt whose failure armed the pending timer, else -1
    loads,              \* fetchInitialSnapshot calls in flight: per origin index, how many await that origin
    tickerMap,          \* this.tickerMap: per symbol its record object, or Absent
    pendingFetches,     \* this.pendingFetches
    fetches,            \* backfill fetches awaiting their responses: per symbol, how many
    subscribers,        \* this.subscribers
    held,               \* the Map copy handed to the data subscribers last: per symbol the object it refers to
    heldWritten,        \* history: symbols whose record object was written while a handed-out copy referred to it
    statusSubscribers,  \* this.statusSubscribers
    inside,             \* the callbacks' bodies: inside.data[cb] (inside.status[cb]) are the callbacks whose unsubscribe functions the data (status) callback cb calls when it is invoked
    statusCalls,        \* history: the status callbacks the last step invoked, in order, each as <<callback, status>>
    calls,              \* history: the data callbacks the last step invoked, in order, each as <<callback, symbols of the copy it was given>>
    stopped,            \* history: disconnect() has returned and connect() has not been called since
    lastOp,             \* history: <<"EvMessage", frame>>, <<"BackfillResponse", <<symbol>>>> or <<"ConnectClearsTimer", << >>>> when the last step was that one, else NoOp
    quote,              \* the last getQuoteAsset call: its argument and the value it returned
    activeTab,          \* App state activeTab
    alphaData,          \* App state alphaData: the output list of the alternate-source poller
    alphaApiStatus,     \* App state alphaApiStatus
    polls,              \* the fetchAlphaData calls in flight, in the order they started: the strategy each one awaits
    unhandled,          \* history: an error left a fetchAlphaData call
    late                \* history: per fetchAlphaData call in flight, whether the tab was left or a call that started after it was accepted since it started

\* The variables of the BinanceService object and their history.
svcVars == << ws, strays, reconnectAttempt, reconnectTimeoutId, timers, timerDelay,
              endpointIndex, lastFailed, loads, tickerMap, pendingFetches, fetches,
              subscribers, held, heldWritten, statusSubscribers, statusCalls,
              calls, stopped, lastOp, inside >>

\* The variables outside the service object.
appVars == << quote, activeTab, alphaData, alphaApiStatus, polls, unhandled, late >>

\* The variables of the alternate-source poller.
pollVars == << activeTab, alphaData, alphaApiStatus, polls, unhandled, late >>

vars == << svcVars, appVars >>

\* The state as one record, so that the methods of the class compose as
\* functions from state to state. A handler starts with no callback invoked.
St == [ ws |-> ws, strays |-> strays, reconnectAttempt |-> reconnectAttempt,
        reconnectTimeoutId |-> reconnectTimeoutId, timers |-> timers,
        timerDelay |-> timerDelay, endpointIndex |-> endpointIndex,
        lastFailed |-> lastFailed, loads |-> loads, tickerMap |-> tickerMap,
        pendingFetches |-> pendingFetches, fetches |-> fetches,
        subscribers |-> subscribers,
        held |-> held, heldWritten |-> heldWritten, calls |-> << >>,
        statusSubscribers |-> statusSubscribers, statusCalls |-> << >>,
        stopped |-> stopped,
        lastOp |-> lastOp, inside |-> inside ]

Set(s) ==
    /\ ws' = s.ws
    /\ strays' = s.strays
    /\ reconnectAttempt' = s.reconnectAttempt
    /\ reconnectTimeoutId' = s.reconnectTimeoutId
    /\ timers' = s.timers
    /\ timerDelay' = s.timerDelay
    /\ endpointIndex' = s.endpointIndex
    /\ lastFailed' = s.lastFailed
    /\ loads' = s.loads
    /\ tickerMap' = s.tickerMap
    /\ pendingFetches' = s.pendingFetches
    /\ fetches' = s.fetches
    /\ subscribers' = s.subscribers
    /\ held' = s.held
    /\ heldWritten' = s.heldWritten
    /\ calls' = s.calls
    /\ statusSubscribers' = s.statusSubscribers
    /\ statusCalls' = s.statusCalls
    /\ stopped' = s.stopped
    /\ inside' = s.inside
    /\ lastOp' = s.lastOp
    /\ UNCHANGED appVars

\* ------------------------------------------------------ the WebSocket part
\* A socket is [phase, idx]: phase is its readyState ("CONNECTING", "OPEN",
\* "CLOSING", and "CLOSED" while its close event is being handled, after which
\* the socket is gone) and idx the index of the endpoint it was constructed with.
\* In strays a socket also says whether onclose and onerror are still
\* attached; this.ws always has them attached.
NoSocket == [phase |-> "null", idx |-> 0]

\* new URL(fullUrl).origin: scheme, host and port, the port left out when it
\* is the default port of the scheme; path and query are dropped. The URLs of
\* BASE_WS_URLS all parse, so the fallback of emitStatus is never taken.
DefaultPort(scheme) == IF scheme = "wss" THEN "443" ELSE "80"
Origin(url) ==
    [scheme |-> url.scheme, host |-> url.host,
     port |-> IF url.port = DefaultPort(url.scheme) THEN "" ELSE url.port]
DisplayUrl(s) == Origin(BASE_WS_URLS[s.endpointIndex + 1])

\* cb(displayUrl): the call, and the unsubscribe functions the body of cb
\* calls, each replacing this.statusSubscribers by a filtered array.
emitStatusTo(s, cb) ==
    [s EXCEPT !.statusCalls = Append(@, << cb, DisplayUrl(s) >>),
              !.statusSubscribers = SelectSeq(@, LAMBDA x : x \notin s.inside.status[cb])]

\* targets.forEach(cb => cb(displayUrl)) from position i on; targets is the
\* array this.statusSubscribers referred to when emitStatus() started.
RECURSIVE EmitFrom(_, _, _)
EmitFrom(s, targets, i) ==
    IF i > Len(targets) THEN s
    ELSE EmitFrom(emitStatusTo(s, targets[i]), targets, i + 1)

emitStatus(s) == EmitFrom(s, s.statusSubscribers, 1)

Stray(sock, att) == [phase |-> sock.phase, idx |-> sock.idx, attached |-> att]
\* A socket whose handlers disconnect() detached: its url is never read again.
TornDown == [phase |-> "CLOSING", idx |-> 0, attached |-> FALSE]

AddStray(s, d) == [s EXCEPT !.strays = @ (+) SetToBag({d})]
DelStray(s, d) == [s EXCEPT !.strays = @ (-) SetToBag({d})]

Alive(s) == (IF s.ws = NoSocket THEN 0 ELSE 1) + BagCardinality(s.strays)

\* WebSocket.close() on this.ws: readyState becomes CLOSING.
CloseWs(s) == [s EXCEPT !.ws.phase = "CLOSING"]

\* clearTimeout(this.reconnectTimeoutId): cancels the timer if it is pending.
ClearTimeout(s) ==
    IF s.reconnectTimeoutId = "live"
    THEN [s EXCEPT !.timers = @ - 1, !.timerDelay = << 0, 1 >>, !.lastFailed = -1]
    ELSE s

\* A delay that doubles instead of growing by half.
BackoffDoubling(k) ==
    IF 1000 * Pow(2, k) >= maxReconnectDelay
    THEN << maxReconnectDelay, 1 >>
    ELSE << 1000 * Pow(2, k), 1 >>

\* Math.min(1000 * Math.pow(1.5, attempt), this.maxReconnectDelay), exact:
\* 1000 * 3^k / 2^k against the ceiling.
BackoffDelay(k) ==
    IF 1000 * Pow(3, k) >= maxReconnectDelay * Pow(2, k)
    THEN << maxReconnectDelay, 1 >>
    ELSE << 1000 * Pow(3, k), Pow(2, k) >>

\* The endpoint index scheduleReconnect() moves to.
NextEndpoint(i) == (i + 1) % Len(BASE_WS_URLS)

\* A scheduleReconnect() that arms its timer without clearing the pending one.
scheduleReconnectNoClear(s, failed) ==
    LET s1 == emitStatus([s EXCEPT !.endpointIndex = NextEndpoint(@)])
    IN  [s1 EXCEPT !.reconnectAttempt = @ + 1, !.reconnectTimeoutId = "live",
                   !.timers = @ + 1,
                   !.timerDelay = BackoffDelay(s1.reconnectAttempt),
                   !.lastFailed = failed]

\* scheduleReconnect(); failed: the endpoint index of the attempt whose failure
\* is being handled (history only).
scheduleReconnect(s, failed) ==
    LET s1 == emitStatus([s EXCEPT !.endpointIndex = NextEndpoint(@)])
        delay == BackoffDelay(s1.reconnectAttempt)
        s2 == [s1 EXCEPT !.reconnectAttempt = @ + 1]
        s3 == IF s2.reconnectTimeoutId # "null" THEN ClearTimeout(s2) ELSE s2
    IN  [s3 EXCEPT !.reconnectTimeoutId = "live", !.timers = @ + 1,
                   !.timerDelay = delay, !.lastFailed = failed]

\* The guard at the head of connectWebSocket().
AlreadyConnected(s) ==
    /\ s.ws # NoSocket
    /\ s.ws.phase \in {"OPEN", "CONNECTING"}

\* connectWebSocket(); ctorThrows: new WebSocket(url) throws. A socket that
\* this.ws referred to (it is CLOSING) stays alive with its handlers.
connectWebSocket(s, ctorThrows) ==
    IF AlreadyConnected(s) THEN s
    ELSE LET s0 == IF s.reconnectTimeoutId # "null"
                   THEN [ClearTimeout(s) EXCEPT !.reconnectTimeoutId = "null"]
                   ELSE s
             s1 == emitStatus(s0)
         IN  IF ctorThrows
             THEN scheduleReconnect(s1, s1.endpointIndex)
             ELSE LET s2 == IF s1.ws # NoSocket THEN AddStray(s1, Stray(s1.ws, TRUE)) ELSE s1
                  IN  [s2 EXCEPT !.ws = [phase |-> "CONNECTING", idx |-> s1.endpointIndex]]

\* An onopen that leaves the attempt counter alone.
onopenKeepsCounter(s) == emitStatus(s)

\* ws.onopen
onopen(s) == emitStatus([s EXCEPT !.reconnectAttempt = 0])

\* A close handler that reports the status and schedules nothing.
oncloseNoSchedule(s, idx) ==
    LET s1 == IF s.ws # NoSocket /\ s.ws.phase # "CLOSED"
              THEN AddStray(s, Stray(s.ws, TRUE))
              ELSE s
    IN  emitStatus([s1 EXCEPT !.ws = NoSocket])

\* ws.onclose of a socket constructed with endpoint idx: this.ws = null (the
\* socket this.ws referred to, if it is another one, stays alive), then
\* scheduleReconnect().
onclose(s, idx) ==
    LET s1 == IF s.ws # NoSocket /\ s.ws.phase # "CLOSED"
              THEN AddStray(s, Stray(s.ws, TRUE))
              ELSE s
    IN  scheduleReconnect(emitStatus([s1 EXCEPT !.ws = NoSocket]), idx)

\* ws.onerror: closes this.ws unless it is CLOSED.
onerror(s) ==
    IF s.ws # NoSocket /\ s.ws.phase # "CLOSED" THEN CloseWs(s) ELSE s

\* A disconnect() that leaves the pending timer alone.
disconnectKeepsTimer(s) ==
    IF s.ws # NoSocket THEN [AddStray(s, TornDown) EXCEPT !.ws = NoSocket] ELSE s

\* disconnect()
disconnectSvc(s) ==
    LET s1 == IF s.reconnectTimeoutId # "null"
              THEN [ClearTimeout(s) EXCEPT !.reconnectTimeoutId = "null"]
              ELSE s
    IN  IF s1.ws # NoSocket
        THEN [AddStray(s1, TornDown) EXCEPT !.ws = NoSocket]
        ELSE s1

\* ------------------------------------------------------------ the records
\* A TickerData object without its symbol, which is always the key it is
\* stored under.
Absent == [absent |-> TRUE]
Record(p, v, c24, c1h, c4h) ==
    [price |-> p, volume |-> v, changePercent24h |-> c24,
     changePercent1h |-> c1h, changePercent4h |-> c4h]

\* held[S] says which object the copy maps S to: none, the very object that
\* tickerMap holds for S ("same": new Map(this.tickerMap) copies the
\* references, not the records), or an object that tickerMap has replaced
\* since ("old", with its fields).
HeldNone == [k |-> "none"]
HeldSame == [k |-> "same"]
HeldOld(rec) == [k |-> "old", rec |-> rec]

\* new Map(this.tickerMap)
MapCopy(s) ==
    [S \in Symbols |-> IF s.tickerMap[S] = Absent THEN HeldNone ELSE HeldSame]

\* The symbols a copy of the map made now holds.
Keys(s) == { S \in Symbols : s.tickerMap[S] # Absent }

\* callback(copy): the call, and the unsubscribe functions the body of cb
\* calls, each replacing this.subscribers by a filtered array.
Invoke(s, cb) ==
    [s EXCEPT !.held = MapCopy(s), !.calls = Append(@, << cb, Keys(s) >>),
              !.subscribers = SelectSeq(@, LAMBDA x : x \notin s.inside.data[cb])]

\* this.subscribers.forEach((cb) => cb(snapshot)) from position i on;
\* targets is the array this.subscribers referred to when notify() started.
RECURSIVE InvokeFrom(_, _, _)
InvokeFrom(s, targets, i) ==
    IF i > Len(targets) THEN s ELSE InvokeFrom(Invoke(s, targets[i]), targets, i + 1)

\* notify(): every subscriber is called with the copy.
notify(s) ==
    IF s.subscribers # << >> THEN InvokeFrom(s, s.subscribers, 1) ELSE s

\* this.tickerMap.set(S, rec) with rec a new object: a copy that referred to
\* the object replaced keeps referring to it.
SetNewObject(s, S, rec) ==
    [s EXCEPT !.tickerMap[S] = rec,
              !.held[S] = IF @ = HeldSame THEN HeldOld(s.tickerMap[S]) ELSE @]

\* A write to the fields of the object that tickerMap holds for S: a copy that
\* refers to the object shows the new values.
MutateObject(s, S, rec) ==
    [s EXCEPT !.tickerMap[S] = rec,
              !.heldWritten = IF s.held[S] = HeldSame /\ rec # s.tickerMap[S]
                              THEN @ \cup {S} ELSE @]

\* --------------------------------------------------- fetchInitialSnapshot
\* An HTTP response: err (the fetch rejected), ok (res.ok), isArray (the body
\* parsed to the expected array), items (the array).
Origins == 1 .. Len(apiDomains)

\* tradingSymbols: the symbols of exchangeInfo whose status is TRADING.
TradingSymbols(info) ==
    { info[i].symbol : i \in { j \in 1 .. Len(info) : info[j].status = "TRADING" } }

\* A load that keeps the entries without a trade.
RECURSIVE LoadItemsAnyCount(_, _, _, _)
RECURSIVE LoadItems(_, _, _, _)
LoadItemsAnyCount(s, items, trading, i) ==
    IF i > Len(items) THEN s
    ELSE LET item == items[i]
             s1 == IF item.symbol \notin trading THEN s
                   ELSE SetNewObject(s, item.symbol,
                            Record(parseFloat(item.lastPrice), parseFloat(item.quoteVolume),
                                   parseFloat(item.priceChangePercent), Undefined, Undefined))
         IN  LoadItemsAnyCount(s1, items, trading, i + 1)

\* tickerData.forEach(...) from item i on.
LoadItems(s, items, trading, i) ==
    IF i > Len(items) THEN s
    ELSE LET item == items[i]
             s1 == IF item.symbol \notin trading \/ item.count = 0 THEN s
                   ELSE SetNewObject(s, item.symbol,
                            Record(parseFloat(item.lastPrice), parseFloat(item.quoteVolume),
                                   parseFloat(item.priceChangePercent), Undefined, Undefined))
         IN  LoadItems(s1, items, trading, i + 1)

\* A check that looks at the ticker response only.
OriginOkTickerOnly(tickerRes, infoRes) ==
    ~tickerRes.err /\ tickerRes.ok /\ tickerRes.isArray

\* Both responses of an origin pass the checks of the try block.
OriginOk(tickerRes, infoRes) ==
    /\ ~tickerRes.err /\ ~infoRes.err
    /\ tickerRes.ok /\ infoRes.ok
    /\ tickerRes.isArray /\ infoRes.isArray

\* fetchInitialSnapshot() up to its first await: origin 1 is asked.
StartSnapshot(s) == [s EXCEPT !.loads[1] = @ + 1]

\* A load that gives up in silence when the last origin fails.
SnapshotResumeSilent(s, k, tickerRes, infoRes) ==
    LET s1 == [s EXCEPT !.loads[k] = @ - 1]
    IN  IF OriginOk(tickerRes, infoRes)
        THEN notify(LoadItems(s1, tickerRes.items, TradingSymbols(infoRes.items), 1))
        ELSE IF k < Len(apiDomains)
             THEN [s1 EXCEPT !.loads[k + 1] = @ + 1]
             ELSE s1

\* fetchInitialSnapshot() resumed with the two responses of origin k.
SnapshotResume(s, k, tickerRes, infoRes) ==
    LET s1 == [s EXCEPT !.loads[k] = @ - 1]
    IN  IF OriginOk(tickerRes, infoRes)
        THEN notify(LoadItems(s1, tickerRes.items, TradingSymbols(infoRes.items), 1))
        ELSE IF k < Len(apiDomains)
             THEN [s1 EXCEPT !.loads[k + 1] = @ + 1]
             ELSE notify(s1)

LoadsInFlight(s) == s.loads[1] + s.loads[2] + s.loads[3]

\* connect()
connect(s, ctorThrows) == connectWebSocket(StartSnapshot(s), ctorThrows)

\* ----------------------------------------------------- fetchDetailedStats
\* A fetchDetailedStats that does not look at the in-flight set.
StartBackfillUnguarded(s, symbol) ==
    [s EXCEPT !.pendingFetches = @ \cup {symbol}, !.fetches[symbol] = @ + 1]

\* fetchDetailedStats(symbol) up to its await.
StartBackfill(s, symbol) ==
    IF symbol \in s.pendingFetches THEN s
    ELSE [s EXCEPT !.pendingFetches = @ \cup {symbol}, !.fetches[symbol] = @ + 1]

\* The writes of fetchDetailedStats after the await; res1h and res4h are
\* [ok, P]: r.ok and the priceChangePercent of the body.
\* A backfill that writes whatever the fields hold.
BackfillWriteUnchecked(item, res1h, res4h) ==
    [item EXCEPT !.changePercent1h = IF res1h.ok THEN parseFloat(res1h.P) ELSE @,
                 !.changePercent4h = IF res4h.ok THEN parseFloat(res4h.P) ELSE @]

BackfillWrite(item, res1h, res4h) ==
    LET w1 == res1h.ok /\ item.changePercent1h = Undefined
        w4 == res4h.ok /\ item.changePercent4h = Undefined
    IN  [item EXCEPT !.changePercent1h = IF w1 THEN parseFloat(res1h.P) ELSE @,
                     !.changePercent4h = IF w4 THEN parseFloat(res4h.P) ELSE @]

\* An updated flag that is always set.
BackfillUpdatedAlways(item, res1h, res4h) == TRUE

BackfillUpdated(item, res1h, res4h) ==
    \/ res1h.ok /\ item.changePercent1h = Undefined
    \/ res4h.ok /\ item.changePercent4h = Undefined

\* A fetchDetailedStats that removes the symbol at the end of its try block
\* instead of in a finally block.
BackfillResumeNoFinally(s, symbol, res1h, res4h, throws) ==
    LET item == s.tickerMap[symbol]
        s1 == IF ~throws /\ item # Absent /\ BackfillUpdated(item, res1h, res4h)
              THEN notify(MutateObject(s, symbol, BackfillWrite(item, res1h, res4h)))
              ELSE s
    IN  [s1 EXCEPT !.pendingFetches = IF throws THEN @ ELSE @ \ {symbol},
                   !.fetches[symbol] = @ - 1]

\* fetchDetailedStats(symbol) resumed; throws: a fetch rejected or a body did
\* not parse, and the catch block swallows it.
BackfillResume(s, symbol, res1h, res4h, throws) ==
    LET item == s.tickerMap[symbol]
        s1 == IF ~throws /\ item # Absent /\ BackfillUpdated(item, res1h, res4h)
              THEN notify(MutateObject(s, symbol, BackfillWrite(item, res1h, res4h)))
              ELSE s
    IN  [s1 EXCEPT !.pendingFetches = @ \ {symbol}, !.fetches[symbol] = @ - 1]

\* ------------------------------------------------- the Spot Lazy Load Effect
\* tickerDataMap.get(S): the application's subscriber stores every copy it is
\* called with (setTickerDataMap(data)), so tickerDataMap is the copy last
\* delivered, whose records are the objects it refers to.
Shown(s, S) ==
    CASE s.held[S].k = "none" -> Absent
      [] s.held[S].k = "same" -> s.tickerMap[S]
      [] s.held[S].k = "old"  -> s.held[S].rec

\* The predicate of sortedSymbols.find(...).
MissingWindow(s, S) ==
    LET item == Shown(s, S)
    IN  item # Absent /\ (item.changePercent1h = Undefined \/ item.changePercent4h = Undefined)

\* What find returns when no element passes.
NoSymbol == "undefined"

\* sortedSymbols.find(...) from position i on.
RECURSIVE FindFrom(_, _, _)
FindFrom(s, sortedSymbols, i) ==
    IF i > Len(sortedSymbols) THEN NoSymbol
    ELSE IF MissingWindow(s, sortedSymbols[i]) THEN sortedSymbols[i]
    ELSE FindFrom(s, sortedSymbols, i + 1)

\* A driver that takes the last symbol of the order with a missing window.
RECURSIVE FindLastFrom(_, _, _)
FindLastFrom(s, sortedSymbols, i) ==
    IF i > Len(sortedSymbols) THEN NoSymbol
    ELSE LET rest == FindLastFrom(s, sortedSymbols, i + 1)
         IN  IF rest # NoSymbol THEN rest
             ELSE IF MissingWindow(s, sortedSymbols[i]) THEN sortedSymbols[i]
             ELSE NoSymbol

targetSymbolLast(s, sortedSymbols) == FindLastFrom(s, sortedSymbols, 1)

targetSymbol(s, sortedSymbols) == FindFrom(s, sortedSymbols, 1)

\* fillNextEmpty() up to the await inside fetchDetailedStats.
fillNextEmpty(s, sortedSymbols) ==
    LET target == targetSymbol(s, sortedSymbols)
    IN  IF target # NoSymbol THEN StartBackfill(s, target) ELSE s

\* --------------------------------------------------------------- onmessage
\* An inbound frame: parses (JSON.parse succeeds), hasStream and stream
\* (message.stream), hasData (message.data is truthy), isArray and items
\* (message.data, or its elements). An item is an update [s, c, q, P] or
\* NullItem, a null in the place of an update.
NullItem == [null |-> TRUE]

Mark1h == << "1", "h" >>
Mark4h == << "4", "h" >>
\* An is1h that gives way to the 4-hour marker.
is1hUnless4h(streamName) ==
    Includes(streamName, Mark1h) /\ ~Includes(streamName, Mark4h)

is1h(streamName) == Includes(streamName, Mark1h)
is4h(streamName) == Includes(streamName, Mark4h)
is24h(streamName) == ~is1h(streamName) /\ ~is4h(streamName)

\* A starting record with nothing in it.
NewRecordEmpty == Record(Undefined, Undefined, Undefined, Undefined, Undefined)

\* The record a symbol without one starts from.
NewRecord == Record(Num(0), Num(0), Num(0), Undefined, Undefined)

\* A merge that writes the 24-hour fields whatever the stream.
MergeItemAllFields(existing, streamName, item) ==
    [existing EXCEPT !.price = parseFloat(item.c),
                     !.volume = parseFloat(item.q),
                     !.changePercent24h = parseFloat(item.P),
                     !.changePercent1h = IF is1h(streamName) THEN parseFloat(item.P) ELSE @,
                     !.changePercent4h = IF ~is1h(streamName) /\ is4h(streamName)
                                         THEN parseFloat(item.P) ELSE @]

\* A merge whose 24-hour branch builds the record anew, without the
\* change-window fields.
MergeItemFresh24h(existing, streamName, item) ==
    IF is24h(streamName)
    THEN Record(parseFloat(item.c), parseFloat(item.q), parseFloat(item.P),
                Undefined, Undefined)
    ELSE IF is1h(streamName)
    THEN [existing EXCEPT !.price = parseFloat(item.c),
                          !.changePercent1h = parseFloat(item.P)]
    ELSE [existing EXCEPT !.price = parseFloat(item.c),
                          !.changePercent4h = parseFloat(item.P)]

\* The body of rawData.forEach for one update.
MergeItem(existing, streamName, item) ==
    IF is24h(streamName)
    THEN [existing EXCEPT !.price = parseFloat(item.c),
                          !.volume = parseFloat(item.q),
                          !.changePercent24h = parseFloat(item.P)]
    ELSE IF is1h(streamName)
    THEN [existing EXCEPT !.price = parseFloat(item.c),
                          !.changePercent1h = parseFloat(item.P)]
    ELSE IF is4h(streamName)
    THEN [existing EXCEPT !.price = parseFloat(item.c),
                          !.changePercent4h = parseFloat(item.P)]
    ELSE existing

\* rawData.forEach(...) from item i on; reading item.s of a null throws and
\* ends the loop. The result is [st, threw].
RECURSIVE MergeItems(_, _, _, _)
MergeItems(s, streamName, items, i) ==
    IF i > Len(items) THEN [st |-> s, threw |-> FALSE]
    ELSE IF items[i] = NullItem THEN [st |-> s, threw |-> TRUE]
    ELSE LET symbol == items[i].s
             existing == IF s.tickerMap[symbol] = Absent THEN NewRecord
                         ELSE s.tickerMap[symbol]
         IN  MergeItems(MutateObject(s, symbol, MergeItem(existing, streamName, items[i])),
                        streamName, items, i + 1)

\* An onmessage that notifies before it merges.
onmessageNotifiesFirst(s, msg) ==
    IF ~msg.parses THEN s
    ELSE IF ~msg.hasData THEN s
    ELSE IF ~msg.hasStream THEN s
    ELSE MergeItems(notify(s), msg.stream, msg.items, 1).st

\* ws.onmessage
onmessage(s, msg) ==
    IF ~msg.parses THEN s
    ELSE IF ~msg.hasData THEN s
    ELSE IF ~msg.hasStream THEN s
    ELSE LET r == MergeItems(s, msg.stream, msg.items, 1)
         IN  IF r.threw THEN r.st ELSE notify(r.st)

\* ------------------------------------------------------------ subscribers
\* A subscribe that runs a whole notification round.
subscribeNotifiesAll(s, cb) == notify([s EXCEPT !.subscribers = Append(@, cb)])

\* subscribe(callback)
subscribe(s, cb) ==
    LET s1 == [s EXCEPT !.subscribers = Append(@, cb)]
    IN  IF \E S \in Symbols : s1.tickerMap[S] # Absent
        THEN Invoke(s1, cb)
        ELSE s1

\* The function subscribe(callback) returns.
unsubscribe(s, cb) ==
    [s EXCEPT !.subscribers = SelectSeq(@, LAMBDA x : x # cb)]

\* A subscribeStatus that emits to every status subscriber.
subscribeStatusEmitsAll(s, cb) == emitStatus([s EXCEPT !.statusSubscribers = Append(@, cb)])

\* subscribeStatus(callback)
subscribeStatus(s, cb) == emitStatusTo([s EXCEPT !.statusSubscribers = Append(@, cb)], cb)

\* The function subscribeStatus(callback) returns.
unsubscribeStatus(s, cb) ==
    [s EXCEPT !.statusSubscribers = SelectSeq(@, LAMBDA x : x # cb)]

\* ------------------------------------------------------------ getQuoteAsset
\* JavaScript null, as a value no text equals.
Null == << "null" >>

KNOWN_QUOTE_ASSETS ==
    << << "U", "S", "D", "T" >>,
       << "F", "D", "U", "S", "D" >>,
       << "U", "S", "D", "C" >>,
       << "T", "U", "S", "D" >>,
       << "B", "U", "S", "D" >>,
       << "U", "S", "D", "P" >>,
       << "D", "A", "I" >>,
       << "E", "U", "R", "I" >>,
       << "A", "E", "U", "R" >>,
       << "V", "A", "I" >>,
       << "I", "D", "R", "T" >>,
       << "B", "T", "C" >>,
       << "E", "T", "H" >>,
       << "B", "N", "B" >>,
       << "S", "O", "L" >>,
       << "X", "R", "P" >>,
       << "T", "R", "X" >>,
       << "D", "O", "G", "E" >>,
       << "D", "O", "T" >>,
       << "E", "U", "R" >>,
       << "T", "R", "Y" >>,
       << "B", "R", "L" >>,
       << "J", "P", "Y" >>,
       << "Z", "A", "R" >>,
       << "I", "D", "R" >>,
       << "R", "U", "B" >>,
       << "G", "B", "P" >>,
       << "A", "U", "D" >>,
       << "C", "O", "P" >>,
       << "M", "X", "N" >>,
       << "A", "R", "S" >>,
       << "N", "G", "N" >>,
       << "U", "A", "H" >>,
       << "P", "L", "N" >>,
       << "R", "O", "N" >>,
       << "K", "Z", "T" >>,
       << "V", "N", "D" >> >>

\* String.prototype.endsWith
endsWith(text, suffix) ==
    /\ Len(suffix) <= Len(text)
    /\ SubSeq(text, Len(text) - Len(suffix) + 1, Len(text)) = suffix

\* The loop of getQuoteAsset from the i-th asset on.
RECURSIVE QuoteFrom(_, _)
QuoteFrom(symbol, i) ==
    IF i > Len(KNOWN_QUOTE_ASSETS) THEN Null
    ELSE IF endsWith(symbol, KNOWN_QUOTE_ASSETS[i]) THEN KNOWN_QUOTE_ASSETS[i]
    ELSE QuoteFrom(symbol, i + 1)

\* A getQuoteAsset whose loop does not stop at the first asset that matches:
\* the last one stands.
RECURSIVE QuoteLastFrom(_, _, _)
QuoteLastFrom(symbol, i, found) ==
    IF i > Len(KNOWN_QUOTE_ASSETS) THEN found
    ELSE QuoteLastFrom(symbol, i + 1,
                       IF endsWith(symbol, KNOWN_QUOTE_ASSETS[i])
                       THEN KNOWN_QUOTE_ASSETS[i] ELSE found)

getQuoteAssetLastMatch(symbol) == QuoteLastFrom(symbol, 1, Null)

getQuoteAsset(symbol) == QuoteFrom(symbol, 1)

\* No call of getQuoteAsset yet.
NoQuote == [symbol |-> Null, asset |-> Null]

\* ----------------------------------------------------------- fetchAlphaData
\* The strategies array: the same-origin path, then the two relay wrappers
\* of targetUrl.
strategies == << "apiPath", "corsproxy.io", "api.allorigins.win" >>

\* formatApiStatus(url): only apiPath starts with "/", and gets
\* window.location.origin in front.
formatApiStatus(url) == IF url = "apiPath" THEN "origin+apiPath" ELSE url

Unavailable == "Alpha API unavailable"

\* Values of item.offline.
JsTrue == << "boolean", "true" >>
JsFalse == << "boolean", "false" >>
StrTrue == << "string", "true" >>
NoField == << "undefined", "" >>

\* The filter callback: item.offline === true || item.offline === 'true'
IsOffline(item) == item.offline = JsTrue \/ item.offline = StrTrue

\* toNumber(value): Number.isFinite(num) ? num : undefined
toNumber(value) ==
    LET num == JsNumber(value)
    IN  IF num # NaN THEN num ELSE Undefined

\* The map callback, with the fields the model keeps; marketCap stands for
\* the seven fields that go through toNumber.
MapEntry(item) ==
    [ symbol |-> item.symbol,
      price |-> parseFloat(item.price),
      volume |-> parseFloat(item.volume24h),
      changePercent24h |-> parseFloat(item.percentChange24h),
      changePercent1h |-> Undefined,
      changePercent4h |-> Undefined,
      marketCap |-> toNumber(item.marketCap) ]

\* json.data.filter(...).map(...)
RECURSIVE Mapped(_)
Mapped(data) ==
    IF data = << >> THEN << >>
    ELSE IF IsOffline(Head(data)) THEN Mapped(Tail(data))
    ELSE << MapEntry(Head(data)) >> \o Mapped(Tail(data))

\* What the body of the try block does with the response of one strategy:
\* "continue", "accept", or "throw" when fetch rejects, res.json() rejects,
\* or a callback reads a property of a null entry.
Outcome(res) ==
    IF res.err THEN "throw"
    ELSE IF ~res.ok \/ res.contentType = Null
            \/ ~Includes(res.contentType, ApplicationJson) THEN "continue"
    ELSE IF ~res.parses THEN "throw"
    ELSE IF res.code = "000000" /\ res.isArray
         THEN IF \E i \in 1 .. Len(res.data) : res.data[i].isNull
              THEN "throw" ELSE "accept"
    ELSE "continue"

\* The App state the poller reads and writes, as one record.
Poller ==
    [ alphaData |-> alphaData, alphaApiStatus |-> alphaApiStatus,
      polls |-> polls, unhandled |-> unhandled ]

RemoveAt(seq, c) == SubSeq(seq, 1, c - 1) \o SubSeq(seq, c + 1, Len(seq))

\* fetchAlphaData() up to the await of its first fetch.
StartPoll(inFlight) == Append(inFlight, 1)

\* The loop moves on to the next strategy, or leaves with every one failed.
NextStrategy(p, c) ==
    IF p.polls[c] < Len(strategies)
    THEN [p EXCEPT !.polls[c] = @ + 1]
    ELSE [p EXCEPT !.polls = RemoveAt(@, c), !.alphaApiStatus = Unavailable]

\* A fetchAlphaData that clears the list when every strategy failed.
PollResumeClears(p, c, res) ==
    LET out == Outcome(res)
    IN  IF out = "accept"
        THEN [p EXCEPT !.alphaData = Mapped(res.data),
                       !.alphaApiStatus = formatApiStatus(strategies[p.polls[c]]),
                       !.polls = RemoveAt(@, c)]
        ELSE [NextStrategy(p, c) EXCEPT
                 !.alphaData = IF p.polls[c] < Len(strategies) THEN @ ELSE << >>]

\* fetchAlphaData from the await of the fetch of its c-th call in flight to
\* its next await or its return: the catch block turns a throw into the
\* next strategy.
PollResume(p, c, res) ==
    LET out == Outcome(res)
    IN  IF out = "accept"
        THEN [p EXCEPT !.alphaData = Mapped(res.data),
                       !.alphaApiStatus = formatApiStatus(strategies[p.polls[c]]),
                       !.polls = RemoveAt(@, c)]
        ELSE NextStrategy(p, c)

\* ------------------------------------------------------------------ actions
NoOp == << "", << >> >>

Init ==
    /\ ws = NoSocket
    /\ strays = EmptyBag
    /\ reconnectAttempt = 0
    /\ reconnectTimeoutId = "null"
    /\ timers = 0
    /\ timerDelay = << 0, 1 >>
    /\ endpointIndex = 0
    /\ lastFailed = -1
    /\ loads = [k \in Origins |-> 0]
    /\ tickerMap = [S \in Symbols |-> Absent]
    /\ pendingFetches = {}
    /\ fetches = [S \in Symbols |-> 0]
    /\ subscribers = << >>
    /\ held = [S \in Symbols |-> HeldNone]
    /\ heldWritten = {}
    /\ calls = << >>
    /\ statusSubscribers = << >>
    /\ statusCalls = << >>
    /\ stopped = FALSE
    /\ lastOp = NoOp
    /\ inside = [data |-> [cb \in Callbacks |-> {}], status |-> [cb \in Callbacks |-> {}]]
    /\ quote = NoQuote
    /\ activeTab = "spot"
    /\ alphaData = << >>
    /\ alphaApiStatus = "Alpha API initializing..."
    /\ polls = << >>
    /\ unhandled = FALSE
    /\ late = << >>

\* The model keeps the step: the counters stay under their caps.
Within(s) ==
    /\ Alive(s) <= MaxConns
    /\ s.reconnectAttempt <= MaxAttempt
    /\ LoadsInFlight(s) <= MaxLoads
    /\ Len(s.subscribers) <= MaxSubs
    /\ Len(s.statusSubscribers) <= MaxSubs

Step(s) == Within(s) /\ Set([s EXCEPT !.lastOp = NoOp])
StepAs(s, op, arg) == Within(s) /\ Set([s EXCEPT !.lastOp = << op, arg >>])

\* connect(); the step is marked when its connectWebSocket() passes the
\* guard and finds a pending timer to clear.
Connect(ctorThrows) ==
    IF reconnectTimeoutId = "live" /\ ~AlreadyConnected(St)
    THEN StepAs([connect(St, ctorThrows) EXCEPT !.stopped = FALSE],
                "ConnectClearsTimer", << >>)
    ELSE Step([connect(St, ctorThrows) EXCEPT !.stopped = FALSE])

\* disconnect()
Disconnect == Step([disconnectSvc(St) EXCEPT !.stopped = TRUE])

\* The pending reconnect timer fires: its callback calls connectWebSocket().
TimerFired(s) ==
    [s EXCEPT !.timers = @ - 1,
              !.reconnectTimeoutId = IF @ = "live" THEN "stale" ELSE @,
              !.timerDelay = << 0, 1 >>]

\* The step is marked when connectWebSocket() passes its guard.
TimerFire(ctorThrows) ==
    /\ timers > 0
    /\ LET s == connectWebSocket([TimerFired(St) EXCEPT !.lastFailed = -1], ctorThrows)
       IN  IF AlreadyConnected(St) THEN Step(s) ELSE StepAs(s, "TimerConnects", << >>)

\* The open event of this.ws.
EvOpen ==
    /\ ws # NoSocket /\ ws.phase = "CONNECTING"
    /\ Step(onopen([St EXCEPT !.ws.phase = "OPEN"]))

\* The open event of a socket this.ws no longer refers to.
EvOpenStray(d) ==
    /\ BagIn(d, strays) /\ d.phase = "CONNECTING"
    /\ Step(onopen(AddStray(DelStray(St, d), [d EXCEPT !.phase = "OPEN"])))

\* The closing handshake of a socket starts: its readyState becomes CLOSING.
EvClosing ==
    /\ ws # NoSocket /\ ws.phase = "OPEN"
    /\ Step(CloseWs(St))

EvClosingStray(d) ==
    /\ BagIn(d, strays) /\ d.phase = "OPEN"
    /\ Step(AddStray(DelStray(St, d), [d EXCEPT !.phase = "CLOSING"]))

\* An error event delivered while the socket is not yet CLOSED: of this.ws,
\* or of another socket that has its handlers.
EvError ==
    /\ ws # NoSocket
    /\ Step(onerror(St))

EvErrorStray(d) ==
    /\ BagIn(d, strays) /\ d.attached
    /\ Step(onerror(St))

\* The connection of this.ws is closed: readyState CLOSED, the error event
\* if the connection failed (withError), then the close event.
EvClose(withError) ==
    /\ ws # NoSocket
    /\ LET s0 == [St EXCEPT !.ws.phase = "CLOSED"]
           s1 == IF withError THEN onerror(s0) ELSE s0
       IN  Step(onclose(s1, ws.idx))

\* The same for a socket this.ws no longer refers to.
EvCloseStray(d, withError) ==
    /\ BagIn(d, strays)
    /\ LET s0 == DelStray(St, d)
           s1 == IF withError /\ d.attached THEN onerror(s0) ELSE s0
       IN  Step(IF d.attached THEN onclose(s1, d.idx) ELSE s1)

\* A frame arrives on a socket that is OPEN.
SomeSocketOpen ==
    \/ ws # NoSocket /\ ws.phase = "OPEN"
    \/ \E d \in BagToSet(strays) : d.phase = "OPEN"

EvMessage(msg) ==
    /\ SomeSocketOpen
    /\ StepAs(onmessage(St, msg), "EvMessage", msg)

\* The two responses of origin k arrive at a snapshot load.
SnapshotResponse(k, tickerRes, infoRes) ==
    /\ loads[k] > 0
    /\ Step(SnapshotResume(St, k, tickerRes, infoRes))

\* fetchDetailedStats(symbol)
FetchDetailedStats(symbol) == Step(StartBackfill(St, symbol))

\* The responses of a backfill fetch arrive.
BackfillResponse(symbol, res1h, res4h, throws) ==
    /\ fetches[symbol] > 0
    /\ StepAs(BackfillResume(St, symbol, res1h, res4h, throws), "BackfillResponse", << symbol >>)

\* subscribe(callback)
Subscribe(cb) == Step(subscribe(St, cb))

\* A function returned by subscribe(callback) is called.
Unsubscribe(cb) ==
    /\ \E i \in 1 .. Len(subscribers) : subscribers[i] = cb
    /\ Step(unsubscribe(St, cb))

\* subscribeStatus(callback)
SubscribeStatus(cb) == Step(subscribeStatus(St, cb))

\* A function returned by subscribeStatus(callback) is called.
UnsubscribeStatus(cb) ==
    /\ \E i \in 1 .. Len(statusSubscribers) : statusSubscribers[i] = cb
    /\ Step(unsubscribeStatus(St, cb))

\* subscribe(callback) with a callback whose body calls the unsubscribe
\* function of the data callback x.
SubscribeCalling(cb, x) ==
    /\ cb # x
    /\ \A i \in 1 .. Len(subscribers) : subscribers[i] # cb
    /\ Step(subscribe([St EXCEPT !.inside.data[cb] = {x}], cb))

\* subscribeStatus(callback) with a callback whose body calls the
\* unsubscribe function of the status callback x.
SubscribeStatusCalling(cb, x) ==
    /\ cb # x
    /\ \A i \in 1 .. Len(statusSubscribers) : statusSubscribers[i] # cb
    /\ Step(subscribeStatus([St EXCEPT !.inside.status[cb] = {x}], cb))

\* getQuoteAsset(symbol)
GetQuoteAsset(symbol) ==
    /\ quote' = [symbol |-> symbol, asset |-> getQuoteAsset(symbol)]
    /\ UNCHANGED << svcVars, pollVars >>

\* setActiveTab(tab) and the Alpha Data Fetch Effect that follows it: the
\* cleanup clears the interval, and on the alpha tab the effect calls
\* fetchAlphaData and arms the interval.
SetActiveTab(tab) ==
    /\ tab # activeTab
    /\ activeTab' = tab
    /\ polls' = IF tab = "alpha" THEN StartPoll(polls) ELSE polls
    /\ Len(polls') <= MaxPolls
    /\ late' = IF tab = "alpha" THEN Append(late, FALSE)
               ELSE IF activeTab = "alpha" THEN [i \in DOMAIN late |-> TRUE]
               ELSE late
    /\ UNCHANGED << alphaData, alphaApiStatus, unhandled, quote, svcVars >>

\* The interval armed by the effect fires: fetchAlphaData()
IntervalTick ==
    /\ activeTab = "alpha"
    /\ polls' = StartPoll(polls)
    /\ Len(polls') <= MaxPolls
    /\ late' = Append(late, FALSE)
    /\ UNCHANGED << activeTab, alphaData, alphaApiStatus, unhandled, quote, svcVars >>

\* The fetch of the c-th fetchAlphaData call in flight settles with res.
PollResponse(c, res) ==
    /\ c \in 1 .. Len(polls)
    /\ LET p == PollResume(Poller, c, res)
       IN  /\ alphaData' = p.alphaData
           /\ alphaApiStatus' = p.alphaApiStatus
           /\ polls' = p.polls
           /\ unhandled' = p.unhandled
           /\ late' = IF Outcome(res) = "accept"
                      THEN RemoveAt([i \in DOMAIN late |-> late[i] \/ i < c], c)
                      ELSE IF Len(p.polls) < Len(polls) THEN RemoveAt(late, c)
                      ELSE late
    /\ UNCHANGED << activeTab, quote, svcVars >>

\* The interval of the Spot Lazy Load Effect fires; the effect arms it only
\* when tickerDataMap holds a record and sortedSymbols an element.
LazyLoadTick(sortedSymbols) ==
    /\ \E S \in Symbols : held[S] # HeldNone
    /\ sortedSymbols # << >>
    /\ Step(fillNextEmpty(St, sortedSymbols))

\* ------------------------------------------------------------------- inputs
tx50010 == << "5", "0", "0", "1", "0" >>
tx50000 == << "5", "0", "0", "0", "0" >>
tx7p5 == << "7", ".", "5" >>
tx9 == << "9" >>
tx0p4 == << "0", ".", "4" >>
tx2p5 == << "2", ".", "5" >>
tx1p1 == << "1", ".", "1" >>
txNA == << "N", "/", "A" >>

\* The three streams of STREAMS.
Stream24h == << "!", "t", "i", "c", "k", "e", "r", "@", "a", "r", "r" >>
Stream1h == << "!", "t", "i", "c", "k", "e", "r", "_", "1", "h", "@", "a", "r", "r" >>
Stream4h == << "!", "t", "i", "c", "k", "e", "r", "_", "4", "h", "@", "a", "r", "r" >>
StreamNames == {Stream24h, Stream1h, Stream4h}

UpdateA(sym) == [s |-> sym, c |-> tx50010, q |-> tx7p5, P |-> tx0p4]
UpdateB(sym) == [s |-> sym, c |-> tx50000, q |-> tx9, P |-> tx2p5]

Frame(stream, isArray, items) ==
    [parses |-> TRUE, hasStream |-> TRUE, stream |-> stream, hasData |-> TRUE,
     isArray |-> isArray, items |-> items]
Garbage ==
    [parses |-> FALSE, hasStream |-> FALSE, stream |-> << >>, hasData |-> FALSE,
     isArray |-> FALSE, items |-> << >>]
NoData == [Garbage EXCEPT !.parses = TRUE, !.hasStream = TRUE, !.stream = Stream24h]
NoStream == [Garbage EXCEPT !.parses = TRUE, !.hasData = TRUE, !.isArray = TRUE,
                            !.items = << UpdateA("BTCUSDT") >>]

\* Payloads: one update as an object, and lists (one with two updates for the
\* same symbol, one with a null between two updates).
Singles == { << u >> : u \in { UpdateA("BTCUSDT"), UpdateB("BTCUSDT"), UpdateA("ETHUSDT") } }
Repeated == << UpdateA("BTCUSDT"), UpdateB("BTCUSDT") >>
Broken == << UpdateB("ETHUSDT"), NullItem, UpdateA("BTCUSDT") >>
Frames ==
    { Frame(st, FALSE, p) : st \in StreamNames, p \in Singles }
        \cup { Frame(st, TRUE, Repeated) : st \in {Stream24h, Stream1h} }
        \cup { Frame(st, TRUE, Broken) : st \in {Stream24h, Stream4h} }
        \cup { Garbage, NoData, NoStream }

\* Responses of the snapshot origins.
TickerItem(sym, count) ==
    [symbol |-> sym, lastPrice |-> tx50000, quoteVolume |-> tx9,
     priceChangePercent |-> tx2p5, count |-> count]
InfoItem(sym, status) == [symbol |-> sym, status |-> status]
Http(ok, isArray, items) == [err |-> FALSE, ok |-> ok, isArray |-> isArray, items |-> items]
Rejected == [err |-> TRUE, ok |-> FALSE, isArray |-> FALSE, items |-> << >>]
TickerResponses ==
    { Http(FALSE, FALSE, << >>), Http(TRUE, FALSE, << >>),
      Http(TRUE, TRUE, << TickerItem("BTCUSDT", 5), TickerItem("ETHUSDT", 5) >>),
      Http(TRUE, TRUE, << TickerItem("BTCUSDT", 5), TickerItem("ETHUSDT", 0) >>) }
InfoResponses ==
    { Rejected,
      Http(TRUE, TRUE, << InfoItem("BTCUSDT", "TRADING"), InfoItem("ETHUSDT", "TRADING") >>),
      Http(TRUE, TRUE, << InfoItem("BTCUSDT", "BREAK"), InfoItem("ETHUSDT", "TRADING") >>) }

\* Responses of the backfill origin.
StatResponses == { [ok |-> FALSE, P |-> << >>], [ok |-> TRUE, P |-> tx1p1] }

\* ----------------------------------------------------------- specifications
\* The stream over a connection that stays up: every frame of Frames, in every
\* order, against records seeded by a snapshot load or created by the stream.
GoodTicker == Http(TRUE, TRUE, << TickerItem("BTCUSDT", 5), TickerItem("ETHUSDT", 5) >>)
GoodInfo ==
    Http(TRUE, TRUE, << InfoItem("BTCUSDT", "TRADING"), InfoItem("ETHUSDT", "TRADING") >>)

NextStream ==
    \/ Connect(FALSE)
    \/ EvOpen
    \/ \E msg \in Frames : EvMessage(msg)
    \/ \E k \in Origins, t \in {GoodTicker, Rejected} : SnapshotResponse(k, t, GoodInfo)

SpecStream == Init /\ [][NextStream]_vars

\* The data path over a connection that stays up: snapshot loads, stream
\* frames of one update and backfill fetches in every interleaving.
FramesData ==
    { Frame(st, FALSE, << UpdateA(S) >>) : st \in StreamNames, S \in Symbols }

NextData ==
    \/ Connect(FALSE)
    \/ EvOpen
    \/ \E msg \in FramesData : EvMessage(msg)
    \/ \E k \in Origins, t \in TickerResponses, i \in InfoResponses : SnapshotResponse(k, t, i)
    \/ \E S \in Symbols : FetchDetailedStats(S)
    \/ \E S \in Symbols, r1 \in StatResponses, r4 \in StatResponses :
           BackfillResponse(S, r1, r4, FALSE)
    \/ \E S \in Symbols, r1 \in StatResponses, r4 \in StatResponses :
           BackfillResponse(S, r1, r4, TRUE)

SpecData == Init /\ [][NextData]_vars

\* Subscribers that come and go while one symbol is loaded, streamed and
\* backfilled.
FramesSubs ==
    { Frame(Stream24h, FALSE, << UpdateA("BTCUSDT") >>),
      Frame(Stream1h, TRUE, << UpdateA("BTCUSDT") >>), NoData }
BtcTicker == Http(TRUE, TRUE, << TickerItem("BTCUSDT", 5) >>)
BtcInfo == Http(TRUE, TRUE, << InfoItem("BTCUSDT", "TRADING") >>)
SubsTickers == { BtcTicker, Rejected, Http(FALSE, FALSE, << >>) }

NextSubs ==
    \/ Connect(FALSE)
    \/ EvOpen
    \/ \E msg \in FramesSubs : EvMessage(msg)
    \/ \E k \in Origins, t \in SubsTickers : SnapshotResponse(k, t, BtcInfo)
    \/ FetchDetailedStats("BTCUSDT")
    \/ \E r \in StatResponses : BackfillResponse("BTCUSDT", r, r, FALSE)
    \/ \E cb \in Callbacks : Subscribe(cb)
    \/ \E cb \in Callbacks : Unsubscribe(cb)

SpecSubs == Init /\ [][NextSubs]_vars

\* Snapshot loads against origins that answer in every way, with one
\* subscriber and a stream that patches the loaded records.
FramesLoad == { Frame(st, FALSE, << UpdateA("BTCUSDT") >>) : st \in {Stream24h, Stream1h} }
InfoAnswers == InfoResponses \cup { Http(FALSE, FALSE, << >>), Http(TRUE, FALSE, << >>) }

NextLoad ==
    \/ Connect(FALSE)
    \/ EvOpen
    \/ \E msg \in FramesLoad : EvMessage(msg)
    \/ \E k \in Origins, t \in TickerResponses \cup {Rejected}, i \in InfoAnswers :
           SnapshotResponse(k, t, i)
    \/ Subscribe("cbA")

SpecLoad == Init /\ [][NextLoad]_vars

\* Status subscribers that come and go along one connection cycle: the
\* connection opens, fails and is retried by the timer, until disconnect().
NextStatus ==
    \/ Connect(FALSE)
    \/ Disconnect
    \/ \E ctorThrows \in BOOLEAN : TimerFire(ctorThrows)
    \/ EvOpen
    \/ \E withError \in BOOLEAN : EvClose(withError)
    \/ \E d \in BagToSet(strays) : EvCloseStray(d, FALSE)
    \/ \E cb \in Callbacks : SubscribeStatus(cb)
    \/ \E cb \in Callbacks : UnsubscribeStatus(cb)

SpecStatus == Init /\ [][NextStatus]_vars

\* The connection life cycle under every order of connect(), disconnect(),
\* timer and socket events; the stream is silent and the snapshot origins
\* refuse.
Refusals == { Rejected, Http(FALSE, FALSE, << >>) }

NextConn ==
    \/ \E ctorThrows \in BOOLEAN : Connect(ctorThrows)
    \/ Disconnect
    \/ \E ctorThrows \in BOOLEAN : TimerFire(ctorThrows)
    \/ EvOpen
    \/ \E d \in BagToSet(strays) : EvOpenStray(d)
    \/ EvClosing
    \/ \E d \in BagToSet(strays) : EvClosingStray(d)
    \/ EvError
    \/ \E d \in BagToSet(strays) : EvErrorStray(d)
    \/ \E withError \in BOOLEAN : EvClose(withError)
    \/ \E d \in BagToSet(strays), withError \in BOOLEAN : EvCloseStray(d, withError)
    \/ \E k \in Origins, t \in Refusals, i \in Refusals : SnapshotResponse(k, t, i)

SpecConn == Init /\ [][NextConn]_vars

\* The connection cycle of one connect() at a time, with refused snapshot
\* loads, under a reconnect timer that fires when it is due.
NextCycle ==
    \/ Connect(FALSE)
    \/ Disconnect
    \/ \E ctorThrows \in BOOLEAN : TimerFire(ctorThrows)
    \/ EvOpen
    \/ EvClosing
    \/ EvError
    \/ \E withError \in BOOLEAN : EvClose(withError)
    \/ \E d \in BagToSet(strays) : EvCloseStray(d, FALSE)
    \/ \E k \in Origins : SnapshotResponse(k, Rejected, Rejected)

SpecCycle ==
    /\ Init /\ [][NextCycle]_vars
    /\ WF_vars(\E ctorThrows \in BOOLEAN : TimerFire(ctorThrows))

\* The quote-asset detection alone, over symbols made of a base and a listed
\* asset, in both orders, and a symbol that ends with no listed asset.
Bases ==
    { << >>, << "E", "T", "H" >>, << "B", "T", "C" >>, << "X" >>,
      << "U", "N", "K", "N", "O", "W", "N" >> }

QuoteSymbols ==
    { base \o KNOWN_QUOTE_ASSETS[i] : base \in Bases, i \in 1 .. Len(KNOWN_QUOTE_ASSETS) }
        \cup { KNOWN_QUOTE_ASSETS[i] \o base : base \in Bases, i \in 1 .. Len(KNOWN_QUOTE_ASSETS) }
        \cup { << "U", "N", "K", "N", "O", "W", "N", "X", "Y", "Z" >> }

NextQuote == \E symbol \in QuoteSymbols : GetQuoteAsset(symbol)

SpecQuote == Init /\ [][NextQuote]_vars

\* The alternate-source poller alone.
EntryA ==
    [isNull |-> FALSE, symbol |-> "ALPHA_A", offline |-> NoField, price |-> tx9,
     volume24h |-> tx50000, percentChange24h |-> tx2p5, marketCap |-> tx50010]
EntryB ==
    [isNull |-> FALSE, symbol |-> "ALPHA_B", offline |-> JsFalse, price |-> tx7p5,
     volume24h |-> tx50000, percentChange24h |-> tx0p4, marketCap |-> tx50010]
NullEntry ==
    [isNull |-> TRUE, symbol |-> "", offline |-> NoField, price |-> << >>,
     volume24h |-> << >>, percentChange24h |-> << >>, marketCap |-> << >>]

\* Entries with one field that does not parse, and one with a numeral
\* followed by a letter.
EntryNoCap == [EntryA EXCEPT !.symbol = "ALPHA_C", !.marketCap = txNA]
EntryNoPrice == [EntryA EXCEPT !.symbol = "ALPHA_D", !.price = txNA]
EntryCapSuffix == [EntryA EXCEPT !.symbol = "ALPHA_E", !.marketCap = tx9 \o << "k" >>]

AlphaLists ==
    { << >>,
      << EntryA, [EntryB EXCEPT !.offline = StrTrue] >>,
      << [EntryA EXCEPT !.offline = JsTrue], EntryB >> }

\* A response with a success status, a JSON content type and a body that
\* parses.
Json(code, isArray, data) ==
    [err |-> FALSE, ok |-> TRUE, contentType |-> ApplicationJson,
     parses |-> TRUE, code |-> code, isArray |-> isArray, data |-> data]

GoodAlpha == Json("000000", TRUE, << EntryA, [EntryB EXCEPT !.offline = StrTrue] >>)

\* Responses that differ from GoodAlpha in one respect each.
FailedAlpha ==
    { [GoodAlpha EXCEPT !.err = TRUE],
      [GoodAlpha EXCEPT !.ok = FALSE],
      [GoodAlpha EXCEPT !.contentType = Null],
      [GoodAlpha EXCEPT !.contentType = TextHtml],
      [GoodAlpha EXCEPT !.parses = FALSE],
      [GoodAlpha EXCEPT !.code = "000002"],
      [GoodAlpha EXCEPT !.isArray = FALSE, !.data = << >>] }

PollResponses ==
    { Json("000000", TRUE, data) : data \in AlphaLists }
        \cup { [GoodAlpha EXCEPT !.contentType = ApplicationJsonUtf8],
               Json("000000", TRUE, << EntryA, NullEntry >>),
               Json("000000", TRUE, << EntryNoCap >>),
               Json("000000", TRUE, << EntryNoPrice >>),
               Json("000000", TRUE, << EntryCapSuffix >>) }
        \cup FailedAlpha

Tabs == {"spot", "alpha", "perp"}

NextPoll ==
    \/ \E tab \in Tabs : SetActiveTab(tab)
    \/ IntervalTick
    \/ \E c \in 1 .. MaxPolls, res \in PollResponses : PollResponse(c, res)

SpecPoll == Init /\ [][NextPoll]_vars

\* The classification of frames by stream identifier: the three subscribed
\* streams and identifiers with both markers, with a marker in another
\* place, with none, and with "4h" behind a "1".
StreamIds ==
    StreamNames \cup
        { << "!", "t", "i", "c", "k", "e", "r", "_", "4", "h", "_", "1", "h", "@", "a", "r", "r" >>,
          << "b", "t", "c", "u", "s", "d", "t", "@", "t", "i", "c", "k", "e", "r", "_", "1", "h" >>,
          << "!", "m", "i", "n", "i", "T", "i", "c", "k", "e", "r", "@", "a", "r", "r" >>,
          << "!", "t", "i", "c", "k", "e", "r", "_", "1", "4", "h", "@", "a", "r", "r" >> }

FramesGroup ==
    { Frame(id, FALSE, << u >>) :
          id \in StreamIds, u \in {UpdateA("BTCUSDT"), UpdateB("BTCUSDT")} }

NextGroup ==
    \/ Connect(FALSE)
    \/ EvOpen
    \/ \E msg \in FramesGroup : EvMessage(msg)

SpecGroup == Init /\ [][NextGroup]_vars

\* Frames of every shape against subscribers that come and go: payloads of
\* two updates, of one, with a null between two updates, no payload, text
\* that does not parse, and a payload without a stream identifier.
FramesNotify ==
    { Frame(Stream24h, TRUE, << UpdateA("BTCUSDT"), UpdateB("ETHUSDT") >>),
      Frame(Stream1h, FALSE, << UpdateA("ETHUSDT") >>),
      Frame(Stream24h, TRUE, Broken),
      NoData, Garbage, NoStream }

NextNotify ==
    \/ Connect(FALSE)
    \/ EvOpen
    \/ \E msg \in FramesNotify : EvMessage(msg)
    \/ \E cb \in Callbacks : Subscribe(cb)
    \/ \E cb \in Callbacks : Unsubscribe(cb)

SpecNotify == Init /\ [][NextNotify]_vars

\* The backfill driver over two symbols that are loaded and streamed, with
\* the application subscribed.
Orders == { << "BTCUSDT", "ETHUSDT" >>, << "ETHUSDT", "BTCUSDT" >>, << "ETHUSDT" >> }
FramesDrive ==
    { Frame(Stream1h, FALSE, << UpdateA("BTCUSDT") >>),
      Frame(Stream4h, FALSE, << UpdateA("BTCUSDT") >>),
      Frame(Stream24h, TRUE, << UpdateA("BTCUSDT"), UpdateB("ETHUSDT") >>) }
DriveTickers ==
    { Http(TRUE, TRUE, << TickerItem("BTCUSDT", 5), TickerItem("ETHUSDT", 5) >>),
      Http(TRUE, TRUE, << TickerItem("BTCUSDT", 5), TickerItem("ETHUSDT", 0) >>) }
DriveInfo ==
    Http(TRUE, TRUE, << InfoItem("BTCUSDT", "TRADING"), InfoItem("ETHUSDT", "TRADING") >>)

NextDrive ==
    \/ Connect(FALSE)
    \/ Subscribe("cbA")
    \/ EvOpen
    \/ \E msg \in FramesDrive : EvMessage(msg)
    \/ \E k \in Origins, t \in DriveTickers : SnapshotResponse(k, t, DriveInfo)
    \/ \E order \in Orders : LazyLoadTick(order)
    \/ \E S \in Symbols, r1 \in StatResponses, r4 \in StatResponses, throws \in BOOLEAN :
           BackfillResponse(S, r1, r4, throws)

SpecDrive == Init /\ [][NextDrive]_vars

\* The driver with one order, under an interval that keeps firing and
\* backfill requests that complete.
PriorityOrder == << "BTCUSDT", "ETHUSDT" >>

NextStarve ==
    \/ Connect(FALSE)
    \/ Subscribe("cbA")
    \/ EvOpen
    \/ \E msg \in FramesDrive : EvMessage(msg)
    \/ \E k \in Origins, t \in DriveTickers : SnapshotResponse(k, t, DriveInfo)
    \/ LazyLoadTick(PriorityOrder)
    \/ \E S \in Symbols, r1 \in StatResponses, r4 \in StatResponses, throws \in BOOLEAN :
           BackfillResponse(S, r1, r4, throws)

SpecStarve ==
    /\ Init /\ [][NextStarve]_vars
    /\ WF_vars(LazyLoadTick(PriorityOrder))
    /\ WF_vars(\E S \in Symbols, r1 \in StatResponses, r4 \in StatResponses,
                  throws \in BOOLEAN : BackfillResponse(S, r1, r4, throws))

\* Subscribers whose callbacks unsubscribe other subscribers, with frames
\* and socket events that start notification rounds.
FramesRounds == { Frame(Stream24h, FALSE, << UpdateA("BTCUSDT") >>) }

NextRounds ==
    \/ Connect(FALSE)
    \/ EvOpen
    \/ \E withError \in BOOLEAN : EvClose(withError)
    \/ \E msg \in FramesRounds : EvMessage(msg)
    \/ \E cb \in Callbacks : Subscribe(cb)
    \/ \E cb \in Callbacks : Unsubscribe(cb)
    \/ \E cb \in Callbacks, x \in Callbacks : SubscribeCalling(cb, x)
    \/ \E cb \in Callbacks : SubscribeStatus(cb)
    \/ \E cb \in Callbacks : UnsubscribeStatus(cb)
    \/ \E cb \in Callbacks, x \in Callbacks : SubscribeStatusCalling(cb, x)

SpecRounds == Init /\ [][NextRounds]_vars

\* ================================================================== claims
Defined(v) == v # Undefined

\* C1: once changePercent1h (changePercent4h) of a symbol's record holds a
\* defined value, no later step sets the field back to undefined.
C1_DefinedFieldStaysDefined ==
    [][\A S \in Symbols :
          tickerMap[S] # Absent =>
              /\ Defined(tickerMap[S].changePercent1h) =>
                     tickerMap'[S] # Absent /\ Defined(tickerMap'[S].changePercent1h)
              /\ Defined(tickerMap[S].changePercent4h) =>
                     tickerMap'[S] # Absent /\ Defined(tickerMap'[S].changePercent4h)]_vars

\* C2: a backfill completion writes changePercent1h (changePercent4h) only
\* where the field is undefined at the moment of completion; a field that the
\* stream defined while the request was in flight keeps its value.
C2_BackfillFillsOnlyUndefined ==
    [][lastOp'[1] = "BackfillResponse" =>
          \A S \in Symbols :
              tickerMap[S] # Absent =>
                  /\ tickerMap'[S] # Absent
                  /\ Defined(tickerMap[S].changePercent1h) =>
                         tickerMap'[S].changePercent1h = tickerMap[S].changePercent1h
                  /\ Defined(tickerMap[S].changePercent4h) =>
                         tickerMap'[S].changePercent4h = tickerMap[S].changePercent4h]_vars

\* The backfill for ETHUSDT has just completed with 1.1 for both windows: the
\* 1h field keeps the streamed 0.4, the 4h field, undefined until then, is 1.1.
C2_StreamedValueRetained ==
    /\ lastOp = << "BackfillResponse", << "ETHUSDT" >> >>
    /\ tickerMap["ETHUSDT"] # Absent
    /\ tickerMap["ETHUSDT"].changePercent1h = Num(4)
    /\ tickerMap["ETHUSDT"].changePercent4h = Num(11)

\* What a frame does, read off the frame: it is processed when it parses and
\* has a payload and a stream name; its updates are reached up to the first
\* null; the number a text stands for is tabulated.
Processed(msg) == msg.parses /\ msg.hasData /\ msg.hasStream
ReachedAt(msg, S) ==
    { i \in 1 .. Len(msg.items) :
          /\ \A j \in 1 .. i : msg.items[j] # NullItem
          /\ msg.items[i].s = S }
Carries(msg, S) == Processed(msg) /\ ReachedAt(msg, S) # {}
LastUpdate(msg, S) ==
    msg.items[CHOOSE i \in ReachedAt(msg, S) : \A j \in ReachedAt(msg, S) : j <= i]
Value(t) ==
    CASE t = tx50010 -> Num(500100)
      [] t = tx50000 -> Num(500000)
      [] t = tx7p5 -> Num(75)
      [] t = tx9 -> Num(90)
      [] t = tx0p4 -> Num(4)
      [] t = tx2p5 -> Num(25)
      [] t = tx1p1 -> Num(11)
Handled(op, S) == op[1] = "EvMessage" /\ Carries(op[2], S)
Handled24h(op, S) == Handled(op, S) /\ op[2].stream = Stream24h

\* C3: a step that processes a 24-hour frame carrying S leaves price, volume
\* and changePercent24h of S at the values of the last update for S in the
\* frame, and they stay there afterwards: the step that follows, unless it
\* processes a frame carrying S itself, does not change them.
C3_Latest24hValuesStand ==
    [][\A S \in Symbols :
          /\ Handled24h(lastOp', S) =>
                 /\ tickerMap'[S] # Absent
                 /\ tickerMap'[S].price = Value(LastUpdate(lastOp'[2], S).c)
                 /\ tickerMap'[S].volume = Value(LastUpdate(lastOp'[2], S).q)
                 /\ tickerMap'[S].changePercent24h = Value(LastUpdate(lastOp'[2], S).P)
          /\ Handled24h(lastOp, S) /\ ~Handled(lastOp', S) =>
                 /\ tickerMap'[S] # Absent
                 /\ tickerMap'[S].price = tickerMap[S].price
                 /\ tickerMap'[S].volume = tickerMap[S].volume
                 /\ tickerMap'[S].changePercent24h = tickerMap[S].changePercent24h]_vars

\* C4: a step that processes a 1-hour or 4-hour frame leaves volume and
\* changePercent24h of every existing record as they were; for a symbol the
\* frame carries it sets price and the field of its window from the last
\* update for the symbol.
C4_WindowFrameKeepsVolumeAnd24h ==
    [][lastOp'[1] = "EvMessage" /\ lastOp'[2].stream \in {Stream1h, Stream4h} =>
          \A S \in Symbols :
              /\ tickerMap[S] # Absent =>
                     /\ tickerMap'[S] # Absent
                     /\ tickerMap'[S].volume = tickerMap[S].volume
                     /\ tickerMap'[S].changePercent24h = tickerMap[S].changePercent24h
              /\ Carries(lastOp'[2], S) =>
                     /\ tickerMap'[S] # Absent
                     /\ tickerMap'[S].price = Value(LastUpdate(lastOp'[2], S).c)
                     /\ lastOp'[2].stream = Stream1h =>
                            tickerMap'[S].changePercent1h = Value(LastUpdate(lastOp'[2], S).P)
                     /\ lastOp'[2].stream = Stream4h =>
                            tickerMap'[S].changePercent4h = Value(LastUpdate(lastOp'[2], S).P)]_vars

\* The record the snapshot seeded with price 50000, volume 9 and 24h change
\* 2.5, right after the 1-hour frame {c 50010, P 0.4} for it.
C4_SeededRecordAfter1hFrame ==
    /\ lastOp = << "EvMessage", Frame(Stream1h, FALSE, << UpdateA("BTCUSDT") >>) >>
    /\ tickerMap["BTCUSDT"] = Record(Num(500100), Num(90), Num(25), Num(4), Undefined)

\* C5: a map copy handed to a data subscriber keeps its symbols and the field
\* values of its records: no record object is written while a handed-out copy
\* refers to it.
C5_HandedCopyImmutable == heldWritten = {}

\* C6: connect() called while the connection is Connecting or Connected
\* changes nothing: no second socket, no request started, and the handle,
\* the endpoint index, the attempt counter, the timer and the record map
\* stay as they were.
C6_ConnectWhileConnectedIsNoOp ==
    [][\A ctorThrows \in BOOLEAN :
          AlreadyConnected(St) /\ Connect(ctorThrows) =>
              UNCHANGED << ws, strays, endpointIndex, reconnectAttempt,
                           reconnectTimeoutId, timers, tickerMap, loads >>]_vars

\* C7: from the return of disconnect() until the next connect(), no reconnect
\* timer is armed and no connection attempt is started, whatever socket
\* events are delivered.
C7_QuietAfterDisconnect ==
    stopped => ws = NoSocket /\ reconnectTimeoutId = "null" /\ timers = 0

\* C8: disconnect() can be called in every state; after it there is no
\* pending timer and no handle, and calling it again changes nothing.
C8_DisconnectIdempotent ==
    [][Disconnect =>
          /\ ws' = NoSocket
          /\ reconnectTimeoutId' = "null"
          /\ timers' = 0
          /\ disconnectSvc(St)' = St']_vars

\* disconnect() has torn down a live connection: the socket is closing with
\* its handlers detached, and nothing is pending.
C8_TornDownAndQuiet ==
    /\ stopped
    /\ BagIn(TornDown, strays)
    /\ ws = NoSocket
    /\ timers = 0

\* C9: every reconnect scheduling advances the endpoint index by one modulo
\* the number of endpoints, and an attempt started by the reconnect timer
\* never targets the endpoint index of the attempt that failed just before.
C9_TimerNeverRetriesSameEndpoint ==
    [][/\ reconnectAttempt' = reconnectAttempt + 1 =>
              endpointIndex' = (endpointIndex + 1) % 4
       /\ \A ctorThrows \in BOOLEAN :
              TimerFire(ctorThrows) /\ ~AlreadyConnected(St) =>
                  lastFailed # endpointIndex]_vars

\* The delay in hundredths of a millisecond that the k-th consecutive
\* scheduling is to use: 1000, 1500, 2250, 3375, 5062.5, 7593.75, then 10000.
ExpectedDelay(k) ==
    CASE k = 0 -> 100000
      [] k = 1 -> 150000
      [] k = 2 -> 225000
      [] k = 3 -> 337500
      [] k = 4 -> 506250
      [] k = 5 -> 759375
      [] k >= 6 -> 1000000

\* C10: the scheduling at attempt counter k arms a timer of
\* min(1000 * 1.5^k, 10000) ms and increments the counter by one; no delay
\* exceeds 10000 ms.
C10_BackoffDelays ==
    [][/\ reconnectAttempt' = reconnectAttempt + 1 =>
              /\ reconnectTimeoutId' = "live"
              /\ timers' = 1
              /\ timerDelay'[1] * 100 = ExpectedDelay(reconnectAttempt) * timerDelay'[2]
       /\ timerDelay'[1] <= 10000 * timerDelay'[2]
       /\ reconnectAttempt' > reconnectAttempt => reconnectAttempt' = reconnectAttempt + 1]_vars

\* The seventh scheduling in a row has armed the timer at the ceiling.
C10_CeilingReached ==
    /\ reconnectTimeoutId = "live"
    /\ reconnectAttempt = 7
    /\ timerDelay = << 10000, 1 >>

\* What the claims about callbacks read: the symbols the map holds, the
\* round that invokes every registered callback once with a copy holding
\* those symbols, and the number of registrations of a callback.
Held(map) == { S \in Symbols : map[S] # Absent }
Round(subs, map) == [i \in 1 .. Len(subs) |-> << subs[i], Held(map) >>]
Count(subs, cb) == Cardinality({ i \in 1 .. Len(subs) : subs[i] = cb })

\* C11: subscribe(callback) registers the callback and, when the map holds a
\* record, invokes that callback and no other exactly once, within the call,
\* with a copy that holds the symbols of the map; on an empty map it invokes
\* nobody; the callback can be unsubscribed afterwards.
C11_SubscribeInvokesNewcomerOnce ==
    [][\A cb \in Callbacks :
          Subscribe(cb) =>
              /\ subscribers' = Append(subscribers, cb)
              /\ tickerMap' = tickerMap
              /\ Held(tickerMap) # {} => calls' = << << cb, Held(tickerMap) >> >>
              /\ Held(tickerMap) = {} => calls' = << >>
              /\ Count(subscribers', cb) = Count(subscribers, cb) + 1]_vars

\* cbB has just subscribed after cbA, with BTCUSDT in the map: cbB alone was
\* invoked, once, with a copy holding BTCUSDT.
C11_LateSubscriberServed ==
    /\ subscribers = << "cbA", "cbB" >>
    /\ calls = << << "cbB", {"BTCUSDT"} >> >>

\* C13: calling an unsubscribe function removes exactly one registration of
\* its callback and leaves the registrations of the other callbacks alone.
C13_UnsubscribeRemovesOne ==
    [][\A cb \in Callbacks :
          Unsubscribe(cb) =>
              /\ Count(subscribers', cb) = Count(subscribers, cb) - 1
              /\ \A other \in Callbacks \ {cb} :
                     Count(subscribers', other) = Count(subscribers, other)]_vars

\* C14: the step that ends a snapshot load invokes every data subscriber once
\* with a copy of the map, whether an origin succeeded or the last one
\* failed; when the last origin fails the map is left as it was.
C14_LoadEndsWithNotify ==
    [][/\ LoadsInFlight(St)' < LoadsInFlight(St) =>
              calls' = Round(subscribers, tickerMap')
       /\ \A t \in SubsTickers \ {BtcTicker} :
              SnapshotResponse(Len(apiDomains), t, BtcInfo) =>
                  /\ LoadsInFlight(St)' < LoadsInFlight(St)
                  /\ tickerMap' = tickerMap]_vars

\* Cold start, every origin failed: the subscriber was given an empty copy.
C14_EmptyCopyAfterTotalFailure ==
    /\ calls = << << "cbA", {} >> >>
    /\ LoadsInFlight(St) = 0
    /\ Held(tickerMap) = {}

\* The status each endpoint is shown as.
Display(i) ==
    CASE i = 0 -> [scheme |-> "wss", host |-> "data-stream.binance.vision", port |-> ""]
      [] i = 1 -> [scheme |-> "wss", host |-> "stream.binance.com", port |-> ""]
      [] i = 2 -> [scheme |-> "wss", host |-> "stream.binance.com", port |-> "9443"]
      [] i = 3 -> [scheme |-> "wss", host |-> "data-stream.binance.com", port |-> ""]

\* C12: subscribeStatus(callback) registers the callback and invokes it, and
\* no other status subscriber, exactly once within the call, in every
\* connection state, with the origin of the endpoint at the current index.
C12_SubscribeStatusInvokesNewcomerOnce ==
    [][\A cb \in Callbacks :
          SubscribeStatus(cb) =>
              /\ statusSubscribers' = Append(statusSubscribers, cb)
              /\ statusCalls' = << << cb, Display(endpointIndex) >> >>
              /\ endpointIndex' = endpointIndex]_vars

\* cbB has just subscribed after cbA while the timer waits to retry endpoint
\* 1 (port 443): cbB alone was told wss://stream.binance.com.
C12_NewcomerToldCurrentEndpoint ==
    /\ statusSubscribers = << "cbA", "cbB" >>
    /\ statusCalls = << << "cbB", Display(1) >> >>
    /\ endpointIndex = 1
    /\ reconnectTimeoutId = "live"

\* An origin whose two calls did not both return HTTP success.
HttpFailure(t, i) == t.err \/ i.err \/ ~t.ok \/ ~i.ok

\* C15: a load asks origin 1 first; the answer of origin k makes the load
\* ask origin k + 1, and no other origin, only when origin k gave nothing (no
\* record written, nobody notified); an origin whose two calls did not both
\* return HTTP success gives nothing and is followed by the next one; a step
\* that loads records asks no origin.
C15_OriginsInOrder ==
    [][/\ Connect(FALSE) => loads' = [loads EXCEPT ![1] = @ + 1]
       /\ \A k \in Origins, t \in TickerResponses \cup {Rejected}, i \in InfoAnswers :
              SnapshotResponse(k, t, i) =>
                  /\ \/ loads' = [loads EXCEPT ![k] = @ - 1]
                     \/ /\ k < 3
                        /\ loads' = [loads EXCEPT ![k] = @ - 1, ![k + 1] = @ + 1]
                        /\ tickerMap' = tickerMap
                        /\ calls' = << >>
                  /\ HttpFailure(t, i) =>
                         /\ tickerMap' = tickerMap
                         /\ k < 3 => loads'[k + 1] = loads[k + 1] + 1
                  /\ tickerMap' # tickerMap => \A j \in Origins : loads'[j] <= loads[j]]_vars

\* Origins 1 and 2 failed: the load waits for origin 3, nothing is loaded.
C15_ThirdOriginAsked ==
    /\ loads = << 0, 0, 1 >>
    /\ Held(tickerMap) = {}

\* C16: at most one backfill fetch per symbol awaits its responses;
\* fetchDetailedStats(S) called while one does issues no request and changes
\* neither the in-flight set nor the record map.
C16_OneFetchPerSymbol ==
    [][/\ \A S \in Symbols : fetches'[S] <= 1
       /\ \A S \in Symbols :
              FetchDetailedStats(S) /\ S \in pendingFetches =>
                  UNCHANGED << fetches, pendingFetches, tickerMap >>]_vars

\* Fetches for both symbols await their responses together.
C16_FetchesForBothSymbols ==
    /\ fetches = [S \in Symbols |-> 1]
    /\ pendingFetches = Symbols

\* C17: getQuoteAsset(symbol) returns the first asset of the list that is a
\* suffix of the symbol - no earlier asset is a suffix of it - and null when
\* no asset of the list is a suffix; "ETHBTC" gives "BTC" and "UNKNOWNXYZ"
\* gives null.
IsSuffix(suffix, text) ==
    \E n \in 0 .. Len(text) : text = SubSeq(text, 1, n) \o suffix

SuffixPositions(symbol) ==
    { i \in 1 .. Len(KNOWN_QUOTE_ASSETS) : IsSuffix(KNOWN_QUOTE_ASSETS[i], symbol) }

C17_FirstSuffixInListOrder ==
    quote # NoQuote =>
        /\ SuffixPositions(quote.symbol) = {} => quote.asset = Null
        /\ \A i \in SuffixPositions(quote.symbol) :
               (\A j \in SuffixPositions(quote.symbol) : i <= j) =>
                   quote.asset = KNOWN_QUOTE_ASSETS[i]
        /\ quote.symbol = << "E", "T", "H", "B", "T", "C" >> =>
               quote.asset = << "B", "T", "C" >>
        /\ quote.symbol = << "U", "N", "K", "N", "O", "W", "N", "X", "Y", "Z" >> =>
               quote.asset = Null

\* A symbol that ends with two assets of the list got the earlier one.
C17_EarlierOfTwoSuffixes ==
    /\ quote.symbol = << "B", "T", "C", "A", "E", "U", "R" >>
    /\ quote.asset = << "A", "E", "U", "R" >>
    /\ Cardinality(SuffixPositions(quote.symbol)) = 2

\* The four conditions of an accepted response: a success status, a JSON
\* content type, the success code and a list payload.
Meets(res) ==
    /\ ~res.err /\ res.ok
    /\ res.contentType \in {ApplicationJson, ApplicationJsonUtf8}
    /\ res.parses /\ res.code = "000000" /\ res.isArray

\* The mapped entries of a payload that are not flagged offline.
NotOffline(item) == item.offline \notin {JsTrue, StrTrue}
Online(data) ==
    LET kept == SelectSeq(data, NotOffline)
    IN  [i \in 1 .. Len(kept) |-> MapEntry(kept[i])]

\* C18: a poll cycle starts with the same-origin path; a response that does
\* not meet the four conditions makes the cycle try the next strategy and
\* leaves the list alone; the first response that meets them ends the cycle,
\* so no later strategy is tried, and the list becomes exactly the mapped
\* entries of that response that are not flagged offline.
C18_FirstAcceptedReplacesList ==
    [][/\ (IntervalTick \/ SetActiveTab("alpha")) =>
              /\ polls' = Append(polls, 1)
              /\ strategies[1] = "apiPath"
       /\ \A c \in 1 .. MaxPolls, res \in PollResponses :
              PollResponse(c, res) =>
                  IF Meets(res)
                  THEN /\ polls' = RemoveAt(polls, c)
                       /\ alphaData' = Online(res.data)
                  ELSE /\ alphaData' = alphaData
                       /\ polls[c] < Len(strategies) =>
                              polls' = [polls EXCEPT ![c] = @ + 1]]_vars

\* C19: a response that fails leaves the output list as it is, whatever
\* strategy it answers; when it answers the last strategy, so that every
\* strategy of the cycle failed, the cycle ends with the source marked
\* unavailable; no error leaves a cycle.
C19_AllFailedKeepsList ==
    [][/\ unhandled' = FALSE
       /\ \A c \in 1 .. MaxPolls, res \in FailedAlpha :
              PollResponse(c, res) =>
                  /\ alphaData' = alphaData
                  /\ polls[c] = Len(strategies) =>
                         /\ alphaApiStatus' = Unavailable
                         /\ polls' = RemoveAt(polls, c)]_vars

\* Every strategy failed after an earlier cycle had filled the list.
C19_UnavailableWithListKept ==
    /\ alphaApiStatus = Unavailable
    /\ alphaData = << MapEntry(EntryA) >>
    /\ polls = << >>

\* One reconnect is scheduled: the endpoint index advances once, the attempt
\* counter grows by one and one timer is pending.
OneReconnectScheduled ==
    /\ endpointIndex' = NextEndpoint(endpointIndex)
    /\ reconnectAttempt' = reconnectAttempt + 1
    /\ timers' = 1
    /\ reconnectTimeoutId' = "live"

\* C20: the close of the connection this.ws refers to, with or without the
\* error event before it, and a constructor that throws each leave this.ws
\* null and schedule one reconnect; an error event alone leaves the endpoint
\* index, the attempt counter and the timer as they are and at most starts
\* the closing of this.ws.
C20_FailureSchedulesOneReconnect ==
    [][/\ \A withError \in BOOLEAN :
              EvClose(withError) => ws' = NoSocket /\ OneReconnectScheduled
       /\ (Connect(TRUE) \/ TimerFire(TRUE)) /\ ~AlreadyConnected(St) =>
              ws' = NoSocket /\ OneReconnectScheduled
       /\ (EvError \/ \E d \in BagToSet(strays) : EvErrorStray(d)) =>
              /\ UNCHANGED << endpointIndex, reconnectAttempt, timers, reconnectTimeoutId >>
              /\ ws' \in {ws, [ws EXCEPT !.phase = "CLOSING"]}]_vars

\* Sockets that are CONNECTING or OPEN, this.ws and the others together.
LiveStrays ==
    [d \in { x \in BagToSet(strays) : x.phase \in {"CONNECTING", "OPEN"} } |->
        CopiesIn(d, strays)]
Live ==
    (IF ws # NoSocket /\ ws.phase \in {"CONNECTING", "OPEN"} THEN 1 ELSE 0)
        + BagCardinality(LiveStrays)

\* C21: the open, error and close events of a socket this.ws no longer
\* refers to leave this.ws, the endpoint index, the attempt counter and the
\* timer as they are, and at most one socket is CONNECTING or OPEN.
C21_StaleEventsChangeNothing ==
    [][/\ \A d \in BagToSet(strays), withError \in BOOLEAN :
              (EvCloseStray(d, withError) \/ EvErrorStray(d) \/ EvOpenStray(d)) =>
                  UNCHANGED << ws, endpointIndex, reconnectAttempt, timers,
                               reconnectTimeoutId >>
       /\ Live' <= 1]_vars

\* An open event, of this.ws or of another socket.
OpenStep == EvOpen \/ \E d \in BagToSet(strays) : EvOpenStray(d)

\* A step that calls scheduleReconnect(): a close event of a socket that has
\* its handlers, or a constructor that throws.
SchedulingStep ==
    \/ \E withError \in BOOLEAN : EvClose(withError)
    \/ \E d \in BagToSet(strays), withError \in BOOLEAN :
           d.attached /\ EvCloseStray(d, withError)
    \/ (Connect(TRUE) \/ TimerFire(TRUE)) /\ ~AlreadyConnected(St)

\* a/b <= c/d for delays kept as << numerator, denominator >>.
DelayLeq(x, y) == x[1] * y[2] <= y[1] * x[2]

\* C22: an open event sets the attempt counter to zero and no other step
\* lowers it; every reconnect scheduling raises it by one and no other step
\* raises it; the delay of a scheduling is the backoff of the counter it
\* found, which is no less than the backoff of any smaller counter and never
\* more than the 10000 ms ceiling.
C22_CounterResetOnlyByOpen ==
    [][/\ OpenStep => reconnectAttempt' = 0
       /\ SchedulingStep =>
              /\ reconnectAttempt' = reconnectAttempt + 1
              /\ timerDelay' = BackoffDelay(reconnectAttempt)
              /\ DelayLeq(timerDelay', << maxReconnectDelay, 1 >>)
              /\ \A k \in 0 .. reconnectAttempt :
                     DelayLeq(BackoffDelay(k), timerDelay')
       /\ reconnectAttempt' # reconnectAttempt => OpenStep \/ SchedulingStep]_vars

\* An open after two failed attempts: the counter is back at zero.
C22_CounterResetAfterTwoFailures ==
    /\ ws # NoSocket /\ ws.phase = "OPEN"
    /\ reconnectAttempt = 0
    /\ endpointIndex = 2

\* C23: at most one timer is pending, and it is the one reconnectTimeoutId
\* names; a step that schedules a reconnect leaves exactly one pending,
\* whatever was pending before; a connect() that passes the guard leaves none
\* pending unless its own constructor throws, and then the one pending is
\* new; a timer that fires while a connection is CONNECTING or OPEN starts
\* no attempt.
C23_AtMostOneTimer ==
    [][/\ timers' <= 1
       /\ timers' = 1 <=> reconnectTimeoutId' = "live"
       /\ SchedulingStep => timers' = 1
       /\ Connect(FALSE) /\ ~AlreadyConnected(St) =>
              /\ timers' = 0
              /\ reconnectTimeoutId' = "null"
              /\ ws'.phase = "CONNECTING"
       /\ Connect(TRUE) /\ ~AlreadyConnected(St) =>
              timerDelay' = BackoffDelay(reconnectAttempt)
       /\ (\E ctorThrows \in BOOLEAN : TimerFire(ctorThrows)) /\ AlreadyConnected(St) =>
              /\ UNCHANGED << ws, strays, endpointIndex, reconnectAttempt >>
              /\ timers' = timers - 1]_vars

\* connect() has just cleared a pending timer and opened a connection.
C23_ConnectClearedPendingTimer ==
    /\ lastOp = << "ConnectClearsTimer", << >> >>
    /\ ws # NoSocket /\ ws.phase = "CONNECTING"
    /\ timers = 0

\* C24: a connect() that finds records in the map, so that the service was
\* started before, starts no snapshot load; and a snapshot load that ends
\* right after a frame carrying S was merged does not write the record of S.
C24_SnapshotOnceBeforeStream ==
    [][/\ Connect(FALSE) /\ Held(tickerMap) # {} => loads' = loads
       /\ \A S \in Symbols :
              Handled(lastOp, S) /\ LoadsInFlight(St)' < LoadsInFlight(St) =>
                  tickerMap'[S] = tickerMap[S]]_vars

HasMarker(id, marker) ==
    \E i \in 0 .. Len(id) - Len(marker) :
        \A j \in 1 .. Len(marker) : id[i + j] = marker[j]
Group(id) ==
    IF HasMarker(id, << "1", "h" >>) THEN "1h"
    ELSE IF HasMarker(id, << "4", "h" >>) THEN "4h"
    ELSE "24h"

\* The record a frame of one update leaves when it is handled as group g.
AsGroup(g, old, u) ==
    LET base == IF old = Absent
                THEN Record(Num(0), Num(0), Num(0), Undefined, Undefined)
                ELSE old
    IN  CASE g = "24h" -> [base EXCEPT !.price = Value(u.c), !.volume = Value(u.q),
                                       !.changePercent24h = Value(u.P)]
          [] g = "1h" -> [base EXCEPT !.price = Value(u.c),
                                      !.changePercent1h = Value(u.P)]
          [] g = "4h" -> [base EXCEPT !.price = Value(u.c),
                                      !.changePercent4h = Value(u.P)]

\* C26: every frame is handled as the one group of its stream identifier:
\* 1-hour if the identifier contains "1h", otherwise 4-hour if it contains
\* "4h", otherwise 24-hour; !ticker@arr, !ticker_1h@arr and !ticker_4h@arr
\* are 24-hour, 1-hour and 4-hour.
C26_OneGroupPerStream ==
    [][lastOp'[1] = "EvMessage" =>
          LET id == lastOp'[2].stream
              u == lastOp'[2].items[1]
          IN  /\ tickerMap'[u.s] = AsGroup(Group(id), tickerMap[u.s], u)
              /\ id = Stream24h => Group(id) = "24h"
              /\ id = Stream1h => Group(id) = "1h"
              /\ id = Stream4h => Group(id) = "4h"]_vars

\* A frame whose identifier has the 4-hour marker before the 1-hour marker
\* was handled as 1-hour.
C26_BothMarkersIs1h ==
    /\ lastOp[1] = "EvMessage"
    /\ HasMarker(lastOp[2].stream, << "4", "h" >>)
    /\ HasMarker(lastOp[2].stream, << "1", "h" >>)
    /\ tickerMap["BTCUSDT"] = Record(Num(500100), Num(0), Num(0), Num(4), Undefined)

WellFormed(msg) ==
    /\ Processed(msg)
    /\ \A i \in 1 .. Len(msg.items) : msg.items[i] # NullItem

C29_MalformedSkippedRestKept ==
    [][lastOp'[1] = "EvMessage" =>
          LET msg == lastOp'[2]
          IN  /\ UNCHANGED << ws, strays, timers, reconnectTimeoutId, endpointIndex,
                              reconnectAttempt >>
              /\ ~msg.parses => tickerMap' = tickerMap /\ calls' = << >>
              /\ Processed(msg) =>
                     /\ \A i \in 1 .. Len(msg.items) :
                            msg.items[i] # NullItem =>
                                /\ tickerMap'[msg.items[i].s] # Absent
                                /\ tickerMap'[msg.items[i].s].price = Value(msg.items[i].c)
                     /\ calls' = Round(subscribers, tickerMap')]_vars

\* C30: the in-flight set holds exactly the symbols that have a fetch
\* awaiting its responses; a fetch that completes, however it completes,
\* leaves its symbol out of the set; and fetchDetailedStats for a symbol that
\* is not in the set issues a request.
C30_InFlightSetReleased ==
    [][/\ pendingFetches' = { S \in Symbols : fetches'[S] > 0 }
       /\ lastOp'[1] = "BackfillResponse" =>
              /\ lastOp'[2][1] \notin pendingFetches'
              /\ fetches'[lastOp'[2][1]] = fetches[lastOp'[2][1]] - 1
       /\ \A S \in Symbols :
              FetchDetailedStats(S) /\ S \notin pendingFetches =>
                  /\ fetches'[S] = 1
                  /\ pendingFetches' = pendingFetches \cup {S}]_vars

\* A fetch for a symbol without a record has just completed: the set is
\* empty again.
C30_ReleasedWithoutRecord ==
    /\ lastOp = << "BackfillResponse", << "BTCUSDT" >> >>
    /\ tickerMap["BTCUSDT"] = Absent
    /\ pendingFetches = {}

\* C31: a backfill completion that changed the record of its symbol invokes
\* every registration of the subscriber list once; one that left the record
\* as it was, or found none, invokes nobody.
C31_NotifyIffWritten ==
    [][lastOp'[1] = "BackfillResponse" =>
          LET S == lastOp'[2][1]
          IN  /\ tickerMap'[S] # tickerMap[S] =>
                     /\ tickerMap[S] # Absent
                     /\ calls' = Round(subscribers, tickerMap')
              /\ tickerMap'[S] = tickerMap[S] => calls' = << >>]_vars

\* A completion wrote only the 4-hour field, the 1-hour field being the
\* streamed one, and the subscriber was told once.
C31_ToldOnceAfterOneField ==
    /\ lastOp = << "BackfillResponse", << "BTCUSDT" >> >>
    /\ calls = << << "cbA", {"BTCUSDT"} >> >>
    /\ tickerMap["BTCUSDT"] # Absent
    /\ tickerMap["BTCUSDT"].changePercent1h = Num(4)
    /\ tickerMap["BTCUSDT"].changePercent4h = Num(11)

\* A completion found both fields defined and told nobody.
C31_SilentWhenBothDefined ==
    /\ lastOp = << "BackfillResponse", << "BTCUSDT" >> >>
    /\ subscribers # << >>
    /\ calls = << >>
    /\ tickerMap["BTCUSDT"] # Absent
    /\ Defined(tickerMap["BTCUSDT"].changePercent1h)
    /\ Defined(tickerMap["BTCUSDT"].changePercent4h)

\* What a window's request yields when it fails: no value.
NoStat == [ok |-> FALSE, P |-> << >>]

\* The 4-hour field after a completion in which the 4-hour request returned
\* r and the field was free to take it.
Taken4h(S, r) ==
    r.ok /\ tickerMap[S] # Absent /\ tickerMap[S].changePercent4h = Undefined =>
        tickerMap'[S] # Absent /\ tickerMap'[S].changePercent4h = Value(r.P)
Taken1h(S, r) ==
    r.ok /\ tickerMap[S] # Absent /\ tickerMap[S].changePercent1h = Undefined =>
        tickerMap'[S] # Absent /\ tickerMap'[S].changePercent1h = Value(r.P)
Kept1h(S) ==
    tickerMap[S] # Absent =>
        tickerMap'[S] # Absent /\ tickerMap'[S].changePercent1h = tickerMap[S].changePercent1h
Kept4h(S) ==
    tickerMap[S] # Absent =>
        tickerMap'[S] # Absent /\ tickerMap'[S].changePercent4h = tickerMap[S].changePercent4h

\* C32: when the request of one window fails, by a non-success status or by
\* a rejected fetch, the completion leaves the field of that window as it
\* was and still writes the value the other window returned into its field
\* if that field is undefined.
C32_WindowsIndependent ==
    [][\A S \in Symbols, r \in StatResponses, rejected \in BOOLEAN :
          /\ BackfillResponse(S, NoStat, r, rejected) => Kept1h(S) /\ Taken4h(S, r)
          /\ BackfillResponse(S, r, NoStat, rejected) => Kept4h(S) /\ Taken1h(S, r)]_vars

\* The first position of the order whose symbol has a record of the map with
\* a change-window field undefined; 0 when there is none.
Lacks(S) ==
    tickerMap[S] # Absent /\
    (tickerMap[S].changePercent1h = Undefined \/ tickerMap[S].changePercent4h = Undefined)
FirstLacking(order) ==
    LET at == { i \in 1 .. Len(order) : Lacks(order[i]) }
    IN  IF at = {} THEN 0 ELSE CHOOSE i \in at : \A j \in at : i <= j

\* C33: a tick of the backfill driver issues the two requests for the first
\* symbol of the order whose record lacks changePercent1h or changePercent4h,
\* unless a fetch for that symbol is in flight, and for no other symbol; when
\* no symbol of the order lacks a field the tick issues no request.
C33_TickTakesFirstLacking ==
    [][\A order \in Orders :
          LazyLoadTick(order) =>
              LET i == FirstLacking(order)
              IN  /\ tickerMap' = tickerMap
                  /\ i = 0 => fetches' = fetches
                  /\ i # 0 =>
                       fetches' = [fetches EXCEPT
                                      ![order[i]] = IF order[i] \in pendingFetches
                                                    THEN @ ELSE @ + 1]]_vars

\* A tick passed BTCUSDT, whose two fields are defined, and requested ETHUSDT.
C33_SecondInOrderRequested ==
    /\ tickerMap["BTCUSDT"] # Absent
    /\ Defined(tickerMap["BTCUSDT"].changePercent1h)
    /\ Defined(tickerMap["BTCUSDT"].changePercent4h)
    /\ tickerMap["ETHUSDT"] # Absent
    /\ tickerMap["ETHUSDT"].changePercent1h = Undefined
    /\ pendingFetches = {"ETHUSDT"}
    /\ fetches = [S \in Symbols |-> IF S = "ETHUSDT" THEN 1 ELSE 0]

\* The positions of the ticker list that survive the filter for symbol S.
Surviving(t, i, S) ==
    { j \in 1 .. Len(t.items) :
        /\ t.items[j].symbol = S
        /\ t.items[j].count # 0
        /\ \E m \in 1 .. Len(i.items) :
              i.items[m].symbol = S /\ i.items[m].status = "TRADING" }

\* C34: a load whose origin answered both calls writes, for every symbol
\* with a ticker entry that is listed as TRADING and has a trade count other
\* than zero, a record with price, volume and changePercent24h of that entry
\* and changePercent1h and changePercent4h undefined, whatever record the
\* symbol had; the record of every other symbol stays as it was.
C34_LoadWritesFiltered ==
    [][\A k \in Origins, t \in TickerResponses, i \in InfoResponses :
          SnapshotResponse(k, t, i) /\ OriginOk(t, i) =>
              \A S \in Symbols :
                  LET at == Surviving(t, i, S)
                  IN  IF at = {} THEN tickerMap'[S] = tickerMap[S]
                      ELSE LET e == t.items[CHOOSE j \in at : \A n \in at : n <= j]
                           IN  tickerMap'[S] =
                                   Record(Value(e.lastPrice), Value(e.quoteVolume),
                                          Value(e.priceChangePercent), Undefined, Undefined)]_vars

\* The load wrote BTCUSDT and left the streamed record of ETHUSDT, whose
\* ticker entry has no trade, as it was.
C34_LoadedOneKeptOther ==
    /\ LoadsInFlight(St) = 0
    /\ tickerMap["BTCUSDT"] = Record(Num(500000), Num(90), Num(25), Undefined, Undefined)
    /\ tickerMap["ETHUSDT"] # Absent
    /\ tickerMap["ETHUSDT"].price = Num(500100)
    /\ Defined(tickerMap["ETHUSDT"].changePercent1h)

\* A text with no numeral at its start.
Unparsable(t) == parseFloat(t) = NaN

\* The entries of an accepted response that are kept.
Kept(res) == SelectSeq(res.data, LAMBDA item : ~IsOffline(item))

\* C35: in the list of an accepted response, a numeric field of a record is
\* undefined when the text it comes from does not parse as a number; this
\* holds for price, volume and changePercent24h and for marketCap.
C35_UnparsedIsUndefined ==
    [][\A c \in 1 .. MaxPolls, res \in PollResponses :
          PollResponse(c, res) /\ Outcome(res) = "accept" =>
              \A i \in 1 .. Len(alphaData') :
                  LET item == Kept(res)[i]
                      rec == alphaData'[i]
                  IN  /\ Unparsable(item.price) => rec.price = Undefined
                      /\ Unparsable(item.volume24h) => rec.volume = Undefined
                      /\ Unparsable(item.percentChange24h) => rec.changePercent24h = Undefined
                      /\ Unparsable(item.marketCap) => rec.marketCap = Undefined]_vars

\* The part of C35 that speaks of the fields read with toNumber.
C35_UnparsedMetadataIsUndefined ==
    [][\A c \in 1 .. MaxPolls, res \in PollResponses :
          PollResponse(c, res) /\ Outcome(res) = "accept" =>
              \A i \in 1 .. Len(alphaData') :
                  LET n == JsNumber(Kept(res)[i].marketCap)
                  IN  alphaData'[i].marketCap = IF n = NaN THEN Undefined ELSE n]_vars

\* connectWebSocket() passed its guard in the last step, or would not pass it.
Attempted ==
    \/ lastOp[1] \in {"TimerConnects", "ConnectClearsTimer"}
    \/ AlreadyConnected(St)

Registered(subs) == { subs[i] : i \in 1 .. Len(subs) }

\* C37: a step invokes a data (status) callback only if the callback is
\* registered when the step starts or is subscribed by the step, and within
\* the step never after a callback invoked earlier in the step has called
\* its unsubscribe function.
C37_NoCallAfterUnsubscribe ==
    [][/\ \A j \in 1 .. Len(calls') :
              LET cb == calls'[j][1]
              IN  /\ cb \in Registered(subscribers) \/
                         (cb \in Registered(subscribers') /\ Len(calls') = 1)
                  /\ \A i \in 1 .. j - 1 : cb \notin inside'.data[calls'[i][1]]
       /\ \A j \in 1 .. Len(statusCalls') :
              LET cb == statusCalls'[j][1]
              IN  /\ cb \in Registered(statusSubscribers) \/
                         (cb \in Registered(statusSubscribers') /\ Len(statusCalls') = 1)
                  /\ \A i \in 1 .. j - 1 : cb \notin inside'.status[statusCalls'[i][1]]]_vars

\* The part of C37 about unsubscribe functions called between the steps of
\* the service: a callback that is not registered is not invoked.
C37_NoCallOnceRemoved ==
    [][/\ \A j \in 1 .. Len(calls') :
              calls'[j][1] \in Registered(subscribers) \cup Registered(subscribers')
       /\ \A j \in 1 .. Len(statusCalls') :
              statusCalls'[j][1] \in
                  Registered(statusSubscribers) \cup Registered(statusSubscribers')]_vars

\* C38: under the driver, with ticks that keep firing and requests that
\* complete, a symbol of the order that the driver sees with a change-window
\* field missing is eventually selected for a backfill fetch or gets its
\* fields from elsewhere.
C38_NoSymbolStarved ==
    \A S \in Symbols :
        MissingWindow(St, S) ~> (S \in pendingFetches \/ ~MissingWindow(St, S))

\* C39: the response of a poll cycle that is late, because the tab was left
\* or a cycle that started after it was accepted while it was in flight,
\* leaves the output list and the status as they are.
C39_LateResponseDropped ==
    [][\A c \in 1 .. MaxPolls, res \in PollResponses :
          PollResponse(c, res) /\ late[c] =>
              UNCHANGED << alphaData, alphaApiStatus >>]_vars

====
